---------------------------- MODULE Spec2Model ----------------------------
(***************************************************************************)
(* A model of libirc.IRCConnection (src/libirc.py): the socket lifecycle,  *)
(* the outbound and inbound buffers, line framing, the inbound parser and  *)
(* the two reentrant locks, as used by the relay (src/relay.py).           *)
(*                                                                         *)
(* Text and bytes are sequences of one-character tokens.  "CR" and "LF"    *)
(* are the carriage return and the line feed, "x01" is the CTCP marker,    *)
(* "xFF" is a byte that is no valid UTF-8 and "uFFFD" the replacement      *)
(* character it decodes to.  Python's None is the token sequence None.     *)
(***************************************************************************)
EXTENDS Integers, Sequences, FiniteSets, TLC

VARIABLES
    sock,       \* self.sock: "None", or the state of the socket it refers to
    sockssl,    \* whether self.sock is an ssl.SSLSocket
    addr,       \* self.addr: "None" or "ADDR"
    nick,       \* self.nick: None or text
    sendbuf,    \* self.sendbuf: bytes
    recvbuf,    \* self.recvbuf: bytes
    lock,       \* self.lock (RLock): [owner, count]
    recvlock,   \* self.recvlock (RLock): [owner, count]
    pc,         \* per thread: the statement it is at
    stack,      \* per thread: the return addresses of its nested calls
    loc,        \* per thread: arguments and local variables of its calls
    ret,        \* per thread: the outcome of its last finished top-level call
    wire,       \* bytes the socket accepted (history)
    delivered,  \* bytes the socket handed to recv since connect (history)
    got,        \* lines recvline returned since connect (history)
    limit,      \* bytes the peer delivers on one connection (fixed per run)
    sinceQuit,  \* a quit() returned and no connect() was called since (history)
    dropped,    \* state of the socket self.sock referred to last before (history)
    CFG,        \* relay.py: the flags t2i and i2t of the configuration CFG
    lastcmd,    \* relay.py: the last /t2i or /i2t command and the flag it met
    capacity,   \* relay.py, LRUCache: self.capacity
    cache,      \* relay.py, LRUCache: self.cache, the (key, value) pairs in its order
    lastop,     \* relay.py, LRUCache: the last call, what it met and returned (history)
    loop,       \* relay.py, per thread: where it is in getircupd or irc_forward ("off": in neither)
    MSG_Q,      \* relay.py: the messages in the queue MSG_Q
    fwdmsg      \* relay.py: the msg of the last irc_forward(msg)

vars == <<sock, sockssl, addr, nick, sendbuf, recvbuf, lock, recvlock,
          pc, stack, loc, ret, wire, delivered, got, limit, sinceQuit, dropped,
          CFG, lastcmd, capacity, cache, lastop, loop, MSG_Q, fwdmsg>>

\* the state of relay.py that no method of IRCConnection touches
relayvars == <<CFG, lastcmd, capacity, cache, lastop>>

\* the state of the polling loop of relay.py
pollvars == <<loop, MSG_Q, fwdmsg>>

-----------------------------------------------------------------------------
(* Bounds of the model *)

\* bytes the peer delivers on one connection, when lines are framed
MaxStream == 4
\* bytes the peer delivers on one connection, in the other specifications
MaxInbound == 1
\* bytes one socket.recv call returns at most (stands for buffer_length)
MaxChunk == 2
\* longest line drawn from the whole alphabet when parse() is given a line
MaxLineLen == 3
\* lines a caller may queue in the outbound buffer before a flush
MaxQueued == 2
\* parameters after the verb of a line built by the grammar
MaxWords == 3
\* characters of a free-text argument of a verb method
MaxArgLen == 3
MaxKeys == 3
MaxCapacity == 2
MaxOps == 4

-----------------------------------------------------------------------------
(* Text *)

CR == "CR"
LF == "LF"
SP == " "
None == <<"<None>">>

Min(a, b) == IF a < b THEN a ELSE b

RECURSIVE SeqsUpTo(_, _)
\* every sequence over S of length at most n
SeqsUpTo(S, n) ==
    IF n = 0 THEN {<<>>}
    ELSE LET shorter == SeqsUpTo(S, n - 1)
         IN  shorter \cup {Append(s, x) : s \in {q \in shorter : Len(q) = n - 1}, x \in S}

StartsWith(s, p) ==
    /\ s # None
    /\ Len(s) >= Len(p)
    /\ SubSeq(s, 1, Len(p)) = p

\* str.find(ch): the first index of ch in s, 0 when absent (Python's -1)
Find(s, ch) ==
    IF \E i \in 1..Len(s) : s[i] = ch
    THEN CHOOSE i \in 1..Len(s) : s[i] = ch /\ \A j \in 1..(i - 1) : s[j] # ch
    ELSE 0

\* str.split(ch, 1): a list of one or two parts
Split1(s, ch) ==
    LET i == Find(s, ch)
    IN  IF i = 0 THEN <<s>>
        ELSE <<SubSeq(s, 1, i - 1), SubSeq(s, i + 1, Len(s))>>

RECURSIVE Remove(_, _)
\* str.replace(ch, '')
Remove(s, ch) ==
    IF s = <<>> THEN <<>>
    ELSE IF Head(s) = ch THEN Remove(Tail(s), ch)
         ELSE <<Head(s)>> \o Remove(Tail(s), ch)

RECURSIVE Replace(_, _, _)
\* str.replace(ch, by) for a one-character by
Replace(s, ch, by) ==
    IF s = <<>> THEN <<>>
    ELSE <<IF Head(s) = ch THEN by ELSE Head(s)>> \o Replace(Tail(s), ch, by)

RECURSIVE LStrip(_, _)
LStrip(s, ch) == IF s # <<>> /\ Head(s) = ch THEN LStrip(Tail(s), ch) ELSE s

RECURSIVE RStrip(_, _)
\* bytes.rstrip(ch): every trailing ch goes
RStrip(s, ch) ==
    IF s # <<>> /\ s[Len(s)] = ch THEN RStrip(SubSeq(s, 1, Len(s) - 1), ch) ELSE s

Strip(s, ch) == RStrip(LStrip(s, ch), ch)

\* stripcomma that drops every leading colon
stripcomma_all(s) == LStrip(s, ":")

stripcomma(s) == IF StartsWith(s, <<":">>) THEN Tail(s) ELSE s

rmnl(s) == Replace(Strip(Remove(s, CR), LF), LF, SP)

rmnlsp(s) == Remove(Remove(Remove(s, CR), LF), SP)

rmcr(s) == Remove(s, CR)

RECURSIVE splitlines(_)
\* str.splitlines(): lines end at CR, LF or CR LF; no empty last line
splitlines(s) ==
    IF s = <<>> THEN <<>>
    ELSE LET brk == {i \in 1..Len(s) : s[i] \in {CR, LF}}
         IN  IF brk = {} THEN <<s>>
             ELSE LET i == CHOOSE k \in brk : \A j \in brk : k <= j
                      n == IF s[i] = CR /\ i < Len(s) /\ s[i + 1] = LF THEN i + 1 ELSE i
                  IN  <<SubSeq(s, 1, i - 1)>> \o splitlines(SubSeq(s, n + 1, Len(s)))

RECURSIVE encode(_)
\* str.encode('utf-8', 'replace')
encode(s) ==
    IF s = <<>> THEN <<>>
    ELSE (IF Head(s) = "uFFFD" THEN <<"xEF", "xBF", "xBD">> ELSE <<Head(s)>>)
         \o encode(Tail(s))

RECURSIVE decode(_)
\* bytes.decode('utf-8', 'replace'), for streams whose only bytes outside
\* ASCII are xFF and the encoding EF BF BD of the replacement character
decode(b) ==
    IF b = <<>> THEN <<>>
    ELSE IF Len(b) >= 3 /\ SubSeq(b, 1, 3) = <<"xEF", "xBF", "xBD">>
         THEN <<"uFFFD">> \o decode(SubSeq(b, 4, Len(b)))
         ELSE <<IF Head(b) = "xFF" THEN "uFFFD" ELSE Head(b)>> \o decode(Tail(b))

-----------------------------------------------------------------------------
(* Outbound formatting *)

CRLF == <<CR, LF>>

RECURSIVE QuoteLines(_)
QuoteLines(ls) ==
    IF ls = <<>> THEN <<>>
    ELSE (IF Head(ls) # <<>> THEN encode(Head(ls)) \o CRLF ELSE <<>>)
         \o QuoteLines(Tail(ls))

\* quote() without splitlines(): the text as one line
QuoteBytes_one_line(s) == IF s = <<>> THEN <<>> ELSE encode(s) \o CRLF

\* quote(): tmpbuf, the bytes of the non-empty lines of s, each with CR LF
QuoteBytes(s) == QuoteLines(splitlines(s))

T_PONG == <<"P", "O", "N", "G", " ">>
T_PING == <<"P", "I", "N", "G", " ">>
T_NOTICE == <<"N", "O", "T", "I", "C", "E", " ">>
T_NICK == <<"N", "I", "C", "K", " ">>
T_QUIT == <<"Q", "U", "I", "T">>
T_KICK == <<"K", "I", "C", "K">>
T_PRIVMSG == <<"P", "R", "I", "V", "M", "S", "G">>
T_CTCPPING == <<"x01", "P", "I", "N", "G", " ">>

RECURSIVE NoticeLines(_, _)
NoticeLines(dest, ls) ==
    IF ls = <<>> THEN <<>>
    ELSE (IF Head(ls) # <<>>
          THEN T_NOTICE \o rmnlsp(dest) \o <<" ", ":">> \o rmcr(Head(ls))
          ELSE SubSeq(T_NOTICE, 1, 6) \o <<" ">> \o rmnlsp(dest))
         \o NoticeLines(dest, Tail(ls))

\* notice(): the text handed to quote()
NoticeText(dest, msg) ==
    IF msg # None THEN NoticeLines(dest, splitlines(msg))
    ELSE T_NOTICE \o rmnlsp(dest)

\* quit(): the text handed to quote()
QuitText(reason) ==
    T_QUIT \o rmnl(IF reason # None THEN <<" ", ":">> \o reason ELSE <<>>)

\* tostr(s): the text of s, 'None' for None
tostr(s) == IF s = None THEN <<"N", "o", "n", "e">> ELSE s

\* catchannel(s) for one channel name
catchannel(s) == rmnlsp(s)

T_ACTION == <<"x01", "A", "C", "T", "I", "O", "N", " ">>

\* ' :' + s for an optional trailing argument, '' for None
Trailing(s) == IF s # None THEN <<" ", ":">> \o s ELSE <<>>

RECURSIVE SayLines(_, _)
SayLines(dest, ls) ==
    IF ls = <<>> THEN <<>>
    ELSE T_PRIVMSG \o <<SP>> \o catchannel(dest) \o <<SP, ":">> \o rmcr(Head(ls)) \o <<LF>>
         \o SayLines(dest, Tail(ls))

\* say(): the text handed to quote()
SayText(dest, msg) == SayLines(dest, splitlines(msg))

RECURSIVE ActionLines(_)
ActionLines(ls) ==
    IF ls = <<>> THEN <<>>
    ELSE T_ACTION \o Head(ls) \o <<"x01">> \o ActionLines(Tail(ls))

\* me(): the body handed to say()
MeBody(action) == ActionLines(splitlines(action))

\* mode(): ' ' + newmode for a channel, ' :' + newmode for a nick
ModeArg(target, newmode) ==
    IF newmode = None THEN <<>>
    ELSE IF StartsWith(target, <<"#">>) \/ StartsWith(target, <<"&">>)
         THEN <<SP>> \o newmode
         ELSE <<SP, ":">> \o newmode

\* setuser(): ident defaults to the nick, realname to ident; host is addr[0]
UserText(ident, realname, curnick, host) ==
    LET id == IF ident = None THEN curnick ELSE ident
        rn == IF realname = None THEN id ELSE realname
    IN  <<"U", "S", "E", "R", SP>> \o rmnlsp(tostr(id)) \o <<SP>> \o rmnlsp(tostr(id))
            \o <<SP>> \o rmnlsp(host) \o <<SP, ":">> \o rmnl(tostr(rn))

\* the verb methods that format one text and hand it to quote()
VerbNames == {"setpass", "setuser", "join", "part", "say", "me", "mode", "kick",
              "away", "invite", "notice", "topic"}

\* the text a verb method hands to quote(), from its arguments a (a[1], a[2],
\* a[3], None for one left out), self.nick and self.addr[0]
VerbText(verb, a, curnick, host) ==
    CASE verb = "setpass" -> <<"P", "A", "S", "S", SP>> \o rmnl(tostr(a[1]))
      [] verb = "setuser" -> UserText(a[1], a[2], curnick, host)
      [] verb = "join" ->
            <<"J", "O", "I", "N", SP>> \o catchannel(a[1])
                \o rmnl(IF a[2] # None THEN <<SP>> \o a[2] ELSE <<>>)
      [] verb = "part" -> <<"P", "A", "R", "T", SP>> \o catchannel(a[1]) \o rmnl(Trailing(a[2]))
      [] verb = "say" -> SayText(a[1], a[2])
      [] verb = "me" -> SayText(a[1], MeBody(a[2]))
      [] verb = "mode" -> <<"M", "O", "D", "E", SP>> \o rmnlsp(a[1]) \o rmnl(ModeArg(a[1], a[2]))
      [] verb = "kick" ->
            T_KICK \o <<SP>> \o rmnlsp(a[1]) \o <<SP>> \o rmnlsp(a[2]) \o rmnl(Trailing(a[3]))
      [] verb = "away" -> <<"A", "W", "A", "Y">> \o rmnl(Trailing(a[1]))
      [] verb = "invite" ->
            <<"I", "N", "V", "I", "T", "E", SP>> \o rmnlsp(a[1]) \o <<SP>> \o rmnlsp(a[2])
      [] verb = "notice" -> NoticeText(a[1], a[2])
      [] verb = "topic" -> <<"T", "O", "P", "I", "C", SP>> \o rmnlsp(a[1]) \o rmnl(Trailing(a[2]))

-----------------------------------------------------------------------------
(* Inbound parsing: the line grammar of parse() *)

DNone == [k |-> "None", a |-> None, b |-> None]
DStr(s) == [k |-> "str", a |-> s, b |-> None]
DPair(x, y) == [k |-> "pair", a |-> x, b |-> y]

Event(n, i, c, d, m) == [nick |-> n, ident |-> i, cmd |-> c, dest |-> d, msg |-> m]

\* the dictionary parse() returns for a PING line
PingEvent(line) == Event(None, None, SubSeq(T_PING, 1, 4), DNone, stripcomma(SubSeq(line, 6, Len(line))))

\* the dictionary parse() returns from its except clause
FallbackEvent(line) == Event(None, None, None, DNone, line)

\* KickDestMsg with the pair of line 402 the other way round
KickDestMsg_swapped(dest, rest) ==
    IF rest # <<>>
    THEN LET m3 == Split1(rest[1], SP)
         IN  [dest |-> DPair(m3[1], dest),
              msg |-> IF Tail(m3) # <<>> THEN stripcomma(m3[2]) ELSE None]
    ELSE [dest |-> DPair(None, dest), msg |-> None]

\* dest and msg of a KICK whose first parameter is dest and whose further
\* parameters are rest (a list of no or one string)
KickDestMsg(dest, rest) ==
    IF rest # <<>>
    THEN LET m3 == Split1(rest[1], SP)
         IN  [dest |-> DPair(dest, m3[1]),
              msg |-> IF Tail(m3) # <<>> THEN stripcomma(m3[2]) ELSE None]
    ELSE [dest |-> DPair(None, dest), msg |-> None]

\* dest and msg from the parameters after the verb (a list of no or one string)
DestMsg(verb, params) ==
    IF params # <<>>
    THEN IF StartsWith(params[1], <<":">>)
         THEN [dest |-> DNone, msg |-> stripcomma(params[1])]
         ELSE LET m2 == Split1(params[1], SP)
              IN  IF verb # T_KICK
                  THEN [dest |-> DStr(m2[1]),
                        msg |-> IF Tail(m2) # <<>> THEN stripcomma(m2[2]) ELSE None]
                  ELSE KickDestMsg(m2[1], Tail(m2))
    ELSE [dest |-> DNone, msg |-> None]

\* nick, ident and the rest of the line (a list of no or one string)
Origin(line) ==
    IF StartsWith(line, <<":">>)
    THEN LET cmd == Split1(line, SP)
             np == Split1(cmd[1], "!")
         IN  [nick |-> stripcomma(np[1]),
              ident |-> IF Len(np) >= 2 THEN np[2] ELSE None,
              cmd |-> Tail(cmd)]
    ELSE [nick |-> None, ident |-> None,
          cmd |-> IF line = <<>> THEN <<>> ELSE <<line>>]

\* the dictionary parse() builds for a line that is no PING line
ParseFields(line) ==
    LET o == Origin(line)
    IN  IF o.cmd # <<>>
        THEN LET msg == Split1(o.cmd[1], SP)
                 dm == DestMsg(msg[1], Tail(msg))
             IN  Event(o.nick, o.ident, msg[1], dm.dest, dm.msg)
        ELSE Event(o.nick, o.ident, None, DNone, None)

\* parse(): whether the event is answered with a CTCP NOTICE
IsCtcpPing(ev) ==
    /\ ev.nick # None /\ ev.nick # <<>>
    /\ ev.cmd = T_PRIVMSG
    /\ ev.msg # None /\ ev.msg # <<>>
    /\ StartsWith(ev.msg, T_CTCPPING)

-----------------------------------------------------------------------------
(* Threads, locks, calls *)

Threads == {1, 2}

NoEvent == Event(None, None, None, DNone, None)

\* arguments and locals of the calls a thread is in
InitLoc ==
    [op |-> "", block |-> FALSE, line |-> None, sarg |-> None, tmpbuf |-> <<>>,
     sendnow |-> TRUE, wait |-> FALSE, reason |-> None, old |-> <<>>,
     received |-> <<>>, rexc |-> "", exc |-> "", rv |-> "None", ev |-> NoEvent,
     ssl |-> FALSE, newnick |-> <<>>, eof |-> FALSE, after |-> FALSE,
     args |-> <<None, None, None>>, buf0 |-> <<>>]

\* what a finished top-level call left: the exception it raised ("" for
\* none), its return value (rv: "None", "True", "False", "line", "event"),
\* and the line or the event when it returned one
NoRet == [op |-> "", exc |-> "", rv |-> "None", line |-> None, ev |-> NoEvent,
          block |-> FALSE, wait |-> FALSE, arg |-> None, eof |-> FALSE, after |-> FALSE,
          args |-> <<None, None, None>>, sendnow |-> TRUE, buf0 |-> <<>>]

Outcome(l) == [op |-> l.op, exc |-> l.exc, rv |-> IF l.exc = "" THEN l.rv ELSE "None",
               line |-> IF l.exc = "" /\ l.rv = "line" THEN l.line ELSE None,
               ev |-> IF l.exc = "" /\ l.rv = "event" THEN l.ev ELSE NoEvent,
               block |-> l.block, wait |-> l.wait,
               arg |-> IF l.op = "parse" THEN l.line ELSE l.sarg,
               eof |-> l.eof, after |-> l.after,
               args |-> l.args, sendnow |-> l.sendnow, buf0 |-> l.buf0]

Free == [owner |-> 0, count |-> 0]

\* RLock.acquire() succeeds for the owner and when the lock is free
CanAcquire(l, t) == l.owner \in {0, t}
Acquired(l, t) == [owner |-> t, count |-> l.count + 1]
Released(l) == IF l.count = 1 THEN Free ELSE [l EXCEPT !.count = l.count - 1]

\* the thread goes on at label, with its locals l
Goto(t, label, l) ==
    /\ pc' = [pc EXCEPT ![t] = label]
    /\ loc' = [loc EXCEPT ![t] = l]
    /\ UNCHANGED <<stack, ret, relayvars, pollvars>>

\* the thread calls the function that starts at entry and will go on at back
CallSub(t, entry, back, l) ==
    /\ pc' = [pc EXCEPT ![t] = entry]
    /\ stack' = [stack EXCEPT ![t] = <<back>> \o stack[t]]
    /\ loc' = [loc EXCEPT ![t] = l]
    /\ UNCHANGED <<ret, relayvars, pollvars>>

\* the function the thread is in returns or raises (l.exc) to its caller
Return(t, l) ==
    IF stack[t] = <<>>
    THEN /\ pc' = [pc EXCEPT ![t] = "idle"]
         /\ ret' = [ret EXCEPT ![t] = Outcome(l)]
         /\ loc' = [loc EXCEPT ![t] = InitLoc]
         /\ UNCHANGED <<stack, relayvars, pollvars>>
    ELSE /\ pc' = [pc EXCEPT ![t] = Head(stack[t])]
         /\ stack' = [stack EXCEPT ![t] = Tail(stack[t])]
         /\ loc' = [loc EXCEPT ![t] = l]
         /\ UNCHANGED <<ret, relayvars, pollvars>>

R_RESET == <<"C", "o", "n", "n", "e", "c", "t", "i", "o", "n", " ", "r", "e", "s", "e", "t", " ", "b", "y", " ", "p", "e", "e", "r", ".">>
R_TIMEOUT == <<"O", "p", "e", "r", "a", "t", "i", "o", "n", " ", "t", "i", "m", "e", "d", " ", "o", "u", "t", ".">>
R_NETWORK == <<"N", "e", "t", "w", "o", "r", "k", " ", "e", "r", "r", "o", "r", ".">>

-----------------------------------------------------------------------------
(* connect(), lines 86-104 *)

\* self.acquire_lock()
c_acq(t) ==
    /\ pc[t] = "c_acq"
    /\ CanAcquire(lock, t)
    /\ lock' = Acquired(lock, t)
    /\ sinceQuit' = FALSE
    /\ Goto(t, "c_addr", loc[t])
    /\ UNCHANGED <<sock, sockssl, addr, nick, sendbuf, recvbuf, recvlock,
                   wire, delivered, got, limit, dropped>>

\* self.addr = (rmnlsp(addr[0]), addr[1])
c_addr(t) ==
    /\ pc[t] = "c_addr"
    /\ addr' = "ADDR"
    /\ Goto(t, "c_sock", loc[t])
    /\ UNCHANGED <<sock, sockssl, nick, sendbuf, recvbuf, lock, recvlock,
                   wire, delivered, got, limit, sinceQuit, dropped>>

\* self.sock = socket.socket(), wrapped in an SSLSocket with use_ssl; the
\* socket cannot always be opened
c_sock(t) ==
    /\ pc[t] = "c_sock"
    /\ \E opened \in BOOLEAN :
          IF opened
          THEN /\ sock' = "unconnected"
               /\ sockssl' = loc[t].ssl
               /\ dropped' = IF sock = "None" THEN dropped ELSE sock
               /\ Goto(t, "c_conn", loc[t])
          ELSE /\ UNCHANGED <<sock, sockssl, dropped>>
               /\ Goto(t, "c_rel", [loc[t] EXCEPT !.exc = "ConnectError"])
    /\ UNCHANGED <<addr, nick, sendbuf, recvbuf, lock, recvlock,
                   wire, delivered, got, limit, sinceQuit>>

\* self.sock.settimeout(300); self.sock.connect(self.addr)
c_conn(t) ==
    /\ pc[t] = "c_conn"
    /\ IF sock = "None"
       THEN /\ UNCHANGED sock
            /\ Goto(t, "c_rel", [loc[t] EXCEPT !.exc = "AttributeError"])
       ELSE \E connected \in BOOLEAN :
               IF connected /\ sock = "unconnected"
               THEN /\ sock' = "connected"
                    /\ Goto(t, "c_reset", loc[t])
               ELSE /\ UNCHANGED sock
                    /\ Goto(t, "c_rel", [loc[t] EXCEPT !.exc = "ConnectError"])
    /\ UNCHANGED <<sockssl, addr, nick, sendbuf, recvbuf, lock, recvlock,
                   wire, delivered, got, limit, sinceQuit, dropped>>

\* connect() without the reset of recvbuf
c_reset_keep_recvbuf(t) ==
    /\ pc[t] = "c_reset"
    /\ nick' = None
    /\ sendbuf' = <<>>
    /\ delivered' = <<>>
    /\ got' = <<>>
    /\ Goto(t, "c_rel", loc[t])
    /\ UNCHANGED <<sock, sockssl, addr, recvbuf, lock, recvlock, wire, limit, sinceQuit,
                   dropped>>

\* self.nick = None; self.recvbuf = b''; self.sendbuf = b''
c_reset(t) ==
    /\ pc[t] = "c_reset"
    /\ nick' = None
    /\ recvbuf' = <<>>
    /\ sendbuf' = <<>>
    /\ delivered' = <<>>
    /\ got' = <<>>
    /\ Goto(t, "c_rel", loc[t])
    /\ UNCHANGED <<sock, sockssl, addr, lock, recvlock, wire, limit, sinceQuit, dropped>>

\* finally: self.lock.release()
c_rel(t) ==
    /\ pc[t] = "c_rel"
    /\ lock' = Released(lock)
    /\ Return(t, [loc[t] EXCEPT !.rv = "None"])
    /\ UNCHANGED <<sock, sockssl, addr, nick, sendbuf, recvbuf, recvlock,
                   wire, delivered, got, limit, sinceQuit, dropped>>

-----------------------------------------------------------------------------
(* send(), lines 118-142 *)

\* self.acquire_lock()
s_acq(t) ==
    /\ pc[t] = "s_acq"
    /\ CanAcquire(lock, t)
    /\ lock' = Acquired(lock, t)
    /\ Goto(t, "s_chk", loc[t])
    /\ UNCHANGED <<sock, sockssl, addr, nick, sendbuf, recvbuf, recvlock,
                   wire, delivered, got, limit, sinceQuit, dropped>>

\* if not self.sock: raise the ENOTSOCK socket.error
s_chk(t) ==
    /\ pc[t] = "s_chk"
    /\ IF sock = "None"
       THEN Goto(t, "s_rel", [loc[t] EXCEPT !.exc = "ENOTSOCK"])
       ELSE Goto(t, "s_write", loc[t])
    /\ UNCHANGED <<sock, sockssl, addr, nick, sendbuf, recvbuf, lock, recvlock,
                   wire, delivered, got, limit, sinceQuit, dropped>>

\* what sendall() may have written when it fails: nothing, or all but the
\* last byte
PartialWrites(data) == {<<>>, SubSeq(data, 1, Len(data) - 1)}

\* where send() goes on after its write
AfterWrite(t) == IF loc[t].sarg = None THEN "s_clear" ELSE "s_rel"

\* self.sock.sendall(self.sendbuf), or self.sock.sendall(sendbuf); a write
\* succeeds only on a connected socket and may fail on any
s_write(t) ==
    /\ pc[t] = "s_write"
    /\ LET data == IF loc[t].sarg = None THEN sendbuf ELSE loc[t].sarg
       IN  IF data = <<>>
           THEN /\ UNCHANGED wire
                /\ Goto(t, AfterWrite(t), loc[t])
           ELSE IF sock = "None"
           THEN /\ UNCHANGED wire
                /\ Goto(t, "s_rel", [loc[t] EXCEPT !.exc = "AttributeError"])
           ELSE \E written \in BOOLEAN :
                   IF written /\ sock = "connected"
                   THEN /\ wire' = wire \o data
                        /\ Goto(t, AfterWrite(t), loc[t])
                   ELSE /\ \E part \in PartialWrites(data) : wire' = wire \o part
                        /\ Goto(t, "s_fail", loc[t])
    /\ UNCHANGED <<sock, sockssl, addr, nick, sendbuf, recvbuf, lock, recvlock,
                   delivered, got, limit, sinceQuit, dropped>>

\* s_clear without the assignment: the written bytes stay in the buffer
s_clear_keep(t) ==
    /\ pc[t] = "s_clear"
    /\ Goto(t, "s_rel", loc[t])
    /\ UNCHANGED <<sock, sockssl, addr, nick, sendbuf, recvbuf, lock, recvlock,
                   wire, delivered, got, limit, sinceQuit, dropped>>

\* self.sendbuf = b''
s_clear(t) ==
    /\ pc[t] = "s_clear"
    /\ sendbuf' = <<>>
    /\ Goto(t, "s_rel", loc[t])
    /\ UNCHANGED <<sock, sockssl, addr, nick, recvbuf, lock, recvlock,
                   wire, delivered, got, limit, sinceQuit, dropped>>

\* s_fail without "finally: self.sock = None": the socket is closed and kept
s_fail_keep(t) ==
    /\ pc[t] = "s_fail"
    /\ sock' = IF sock = "None" THEN "None" ELSE "closed"
    /\ Goto(t, "s_rel", [loc[t] EXCEPT !.exc = IF sock = "None" THEN "AttributeError"
                                                ELSE "SocketError"])
    /\ UNCHANGED <<sockssl, addr, nick, sendbuf, recvbuf, lock, recvlock,
                   wire, delivered, got, limit, sinceQuit, dropped>>

\* except socket.error: try: self.sock.close() finally: self.sock = None; raise
s_fail(t) ==
    /\ pc[t] = "s_fail"
    /\ sock' = "None"
    /\ sockssl' = FALSE
    /\ dropped' = IF sock = "None" THEN dropped ELSE "closed"
    /\ Goto(t, "s_rel", [loc[t] EXCEPT !.exc = IF sock = "None" THEN "AttributeError"
                                                ELSE "SocketError"])
    /\ UNCHANGED <<addr, nick, sendbuf, recvbuf, lock, recvlock,
                   wire, delivered, got, limit, sinceQuit>>

\* s_rel without the release: send() returns with the lock held
s_rel_no_release(t) ==
    /\ pc[t] = "s_rel"
    /\ Return(t, [loc[t] EXCEPT !.rv = "None"])
    /\ UNCHANGED <<sock, sockssl, addr, nick, sendbuf, recvbuf, lock, recvlock,
                   wire, delivered, got, limit, sinceQuit, dropped>>

\* finally: self.lock.release()
s_rel(t) ==
    /\ pc[t] = "s_rel"
    /\ lock' = Released(lock)
    /\ Return(t, [loc[t] EXCEPT !.rv = "None"])
    /\ UNCHANGED <<sock, sockssl, addr, nick, sendbuf, recvbuf, recvlock,
                   wire, delivered, got, limit, sinceQuit, dropped>>

-----------------------------------------------------------------------------
(* quote(), lines 106-116; loc.tmpbuf is its tmpbuf *)

\* if tmpbuf: if sendnow: self.send(tmpbuf)
q_start(t) ==
    /\ pc[t] = "q_start"
    /\ IF loc[t].tmpbuf = <<>>
       THEN Return(t, [loc[t] EXCEPT !.rv = "None"])
       ELSE IF loc[t].sendnow
            THEN Goto(t, "s_acq", [loc[t] EXCEPT !.sarg = loc[t].tmpbuf])
            ELSE Goto(t, "q_read", loc[t])
    /\ UNCHANGED <<sock, sockssl, addr, nick, sendbuf, recvbuf, lock, recvlock,
                   wire, delivered, got, limit, sinceQuit, dropped>>

\* self.sendbuf += tmpbuf: the read of self.sendbuf
q_read(t) ==
    /\ pc[t] = "q_read"
    /\ Goto(t, "q_write", [loc[t] EXCEPT !.old = sendbuf])
    /\ UNCHANGED <<sock, sockssl, addr, nick, sendbuf, recvbuf, lock, recvlock,
                   wire, delivered, got, limit, sinceQuit, dropped>>

\* self.sendbuf += tmpbuf: the store of the sum
q_write(t) ==
    /\ pc[t] = "q_write"
    /\ sendbuf' = loc[t].old \o loc[t].tmpbuf
    /\ Return(t, [loc[t] EXCEPT !.rv = "None", !.old = <<>>])
    /\ UNCHANGED <<sock, sockssl, addr, nick, recvbuf, lock, recvlock,
                   wire, delivered, got, limit, sinceQuit, dropped>>

\* setnick(), lines 148-151: self.nick = rmnlsp(newnick), then quote()
n_set(t) ==
    /\ pc[t] = "n_set"
    /\ nick' = rmnlsp(loc[t].newnick)
    /\ Goto(t, "q_start", [loc[t] EXCEPT !.tmpbuf = QuoteBytes(T_NICK \o rmnlsp(loc[t].newnick))])
    /\ UNCHANGED <<sock, sockssl, addr, sendbuf, recvbuf, lock, recvlock,
                   wire, delivered, got, limit, sinceQuit, dropped>>

\* self.addr[0] of a connected object
Host == <<"h">>

\* a verb method other than setnick() and quit(), lines 144-277: it formats
\* its text and calls quote(); setuser() reads self.addr[0]
v_fmt(t) ==
    /\ pc[t] = "v_fmt"
    /\ IF loc[t].op = "setuser" /\ addr = "None"
       THEN Return(t, [loc[t] EXCEPT !.exc = "TypeError"])
       ELSE Goto(t, "q_start",
                 [loc[t] EXCEPT !.tmpbuf = QuoteBytes(VerbText(loc[t].op, loc[t].args, nick, Host))])
    /\ UNCHANGED <<sock, sockssl, addr, nick, sendbuf, recvbuf, lock, recvlock,
                   wire, delivered, got, limit, sinceQuit, dropped>>

-----------------------------------------------------------------------------
(* quit(), lines 180-207 *)

\* self.acquire_lock()
qt_acq(t) ==
    /\ pc[t] = "qt_acq"
    /\ CanAcquire(lock, t)
    /\ lock' = Acquired(lock, t)
    /\ Goto(t, "qt_chk", loc[t])
    /\ UNCHANGED <<sock, sockssl, addr, nick, sendbuf, recvbuf, recvlock,
                   wire, delivered, got, limit, sinceQuit, dropped>>

\* qt_chk that sends the QUIT line at once whatever wait is
qt_chk_sendnow(t) ==
    /\ pc[t] = "qt_chk"
    /\ IF sock # "None"
       THEN CallSub(t, "q_start", "qt_flush",
                    [loc[t] EXCEPT !.tmpbuf = QuoteBytes(QuitText(loc[t].reason)),
                                   !.sendnow = TRUE])
       ELSE Goto(t, "qt_reset", loc[t])
    /\ UNCHANGED <<sock, sockssl, addr, nick, sendbuf, recvbuf, lock, recvlock,
                   wire, delivered, got, limit, sinceQuit, dropped>>

\* if self.sock: self.quote('QUIT%s' % rmnl(reason), sendnow=not wait)
qt_chk(t) ==
    /\ pc[t] = "qt_chk"
    /\ IF sock # "None"
       THEN CallSub(t, "q_start", "qt_flush",
                    [loc[t] EXCEPT !.tmpbuf = QuoteBytes(QuitText(loc[t].reason)),
                                   !.sendnow = ~loc[t].wait])
       ELSE Goto(t, "qt_reset", loc[t])
    /\ UNCHANGED <<sock, sockssl, addr, nick, sendbuf, recvbuf, lock, recvlock,
                   wire, delivered, got, limit, sinceQuit, dropped>>

\* if wait: self.send()
qt_flush(t) ==
    /\ pc[t] = "qt_flush"
    /\ IF loc[t].wait
       THEN CallSub(t, "s_acq", "qt_sleep", [loc[t] EXCEPT !.sarg = None])
       ELSE Goto(t, "qt_sleep", loc[t])
    /\ UNCHANGED <<sock, sockssl, addr, nick, sendbuf, recvbuf, lock, recvlock,
                   wire, delivered, got, limit, sinceQuit, dropped>>

\* except: pass; time.sleep(2)
qt_sleep(t) ==
    /\ pc[t] = "qt_sleep"
    /\ Goto(t, "qt_close", [loc[t] EXCEPT !.exc = ""])
    /\ UNCHANGED <<sock, sockssl, addr, nick, sendbuf, recvbuf, lock, recvlock,
                   wire, delivered, got, limit, sinceQuit, dropped>>

\* try: self.sock.close() except: pass
qt_close(t) ==
    /\ pc[t] = "qt_close"
    /\ sock' = IF sock = "None" THEN "None" ELSE "closed"
    /\ Goto(t, "qt_reset", loc[t])
    /\ UNCHANGED <<sockssl, addr, nick, sendbuf, recvbuf, lock, recvlock,
                   wire, delivered, got, limit, sinceQuit, dropped>>

\* qt_reset with the four assignments inside "if self.sock:"
qt_reset_inside_if(t) ==
    /\ pc[t] = "qt_reset"
    /\ IF sock = "None"
       THEN UNCHANGED <<sendbuf, sock, sockssl, addr, nick, dropped>>
       ELSE /\ sendbuf' = <<>>
            /\ sock' = "None"
            /\ sockssl' = FALSE
            /\ addr' = "None"
            /\ nick' = None
            /\ dropped' = sock
    /\ Goto(t, "qt_rel", loc[t])
    /\ UNCHANGED <<recvbuf, lock, recvlock, wire, delivered, got, limit, sinceQuit>>

\* self.sendbuf = b''; self.sock = None; self.addr = None; self.nick = None
qt_reset(t) ==
    /\ pc[t] = "qt_reset"
    /\ sendbuf' = <<>>
    /\ sock' = "None"
    /\ sockssl' = FALSE
    /\ addr' = "None"
    /\ nick' = None
    /\ dropped' = IF sock = "None" THEN dropped ELSE sock
    /\ Goto(t, "qt_rel", loc[t])
    /\ UNCHANGED <<recvbuf, lock, recvlock, wire, delivered, got, limit, sinceQuit>>

\* finally: self.lock.release()
qt_rel(t) ==
    /\ pc[t] = "qt_rel"
    /\ lock' = Released(lock)
    /\ sinceQuit' = TRUE
    /\ Return(t, [loc[t] EXCEPT !.rv = "None"])
    /\ UNCHANGED <<sock, sockssl, addr, nick, sendbuf, recvbuf, recvlock,
                   wire, delivered, got, limit, dropped>>

-----------------------------------------------------------------------------
(* recv(), lines 279-335 *)

\* bytes the peer sends
StreamBytes == {"a", CR, LF, "xFF"}

\* what one socket.recv call can hand over: 1..MaxChunk bytes, while the peer
\* has bytes left to deliver on this connection
Chunks == {c \in SeqsUpTo(StreamBytes, MaxChunk) :
              c # <<>> /\ Len(delivered) + Len(c) <= limit}

\* how a socket.recv call can end: with data, with b'' (the peer closed),
\* with socket.timeout (a blocking call), with EAGAIN (a non-blocking call
\* on a plain socket; on an SSLSocket the call waits in select instead), or
\* with another socket.error; a socket that is not connected only fails
RecvEnds(block) ==
    IF sock # "connected" THEN {"error"}
    ELSE {"eof", "error"}
         \cup (IF Chunks # {} THEN {"data"} ELSE {})
         \cup (IF block THEN {"timeout"} ELSE IF sockssl THEN {} ELSE {"again"})

\* if self.recvlock.acquire(): acquire() waits, whatever block is
r_acq(t) ==
    /\ pc[t] = "r_acq"
    /\ CanAcquire(recvlock, t)
    /\ recvlock' = Acquired(recvlock, t)
    /\ Goto(t, "r_chk", loc[t])
    /\ UNCHANGED <<sock, sockssl, addr, nick, sendbuf, recvbuf, lock,
                   wire, delivered, got, limit, sinceQuit, dropped>>

\* if not self.sock: raise the ENOTSOCK socket.error
r_chk(t) ==
    /\ pc[t] = "r_chk"
    /\ IF sock = "None"
       THEN Goto(t, "r_rel", [loc[t] EXCEPT !.exc = "ENOTSOCK"])
       ELSE Goto(t, "r_read", loc[t])
    /\ UNCHANGED <<sock, sockssl, addr, nick, sendbuf, recvbuf, lock, recvlock,
                   wire, delivered, got, limit, sinceQuit, dropped>>

\* received = self.sock.recv(self.buffer_length), after settimeout(0) when
\* not blocking (lines 289-306)
r_read(t) ==
    /\ pc[t] = "r_read"
    /\ IF sock = "None"
       THEN /\ UNCHANGED delivered
            /\ Goto(t, "r_rel", [loc[t] EXCEPT !.exc = "AttributeError"])
       ELSE \E end \in RecvEnds(loc[t].block) :
               IF end = "data"
               THEN \E c \in Chunks :
                       /\ delivered' = delivered \o c
                       /\ Goto(t, IF loc[t].block THEN "r_disp" ELSE "r_restore",
                               [loc[t] EXCEPT !.received = c, !.rexc = ""])
               ELSE /\ UNCHANGED delivered
                    /\ Goto(t, IF loc[t].block THEN "r_disp" ELSE "r_restore",
                            [loc[t] EXCEPT !.received = <<>>,
                                           !.rexc = IF end = "eof" THEN "" ELSE end,
                                           !.eof = loc[t].eof \/ end = "eof"])
    /\ UNCHANGED <<sock, sockssl, addr, nick, sendbuf, recvbuf, lock, recvlock,
                   wire, got, limit, sinceQuit, dropped>>

\* finally: self.sock.settimeout(oldtimeout)
r_restore(t) ==
    /\ pc[t] = "r_restore"
    /\ IF sock = "None"
       THEN Goto(t, "r_rel", [loc[t] EXCEPT !.exc = "AttributeError", !.received = <<>>,
                                            !.rexc = ""])
       ELSE Goto(t, "r_disp", loc[t])
    /\ UNCHANGED <<sock, sockssl, addr, nick, sendbuf, recvbuf, lock, recvlock,
                   wire, delivered, got, limit, sinceQuit, dropped>>

\* lines 310-329: the received bytes join recvbuf; b'' and the errors other
\* than EAGAIN call quit(reason, wait=False)
r_disp(t) ==
    /\ pc[t] = "r_disp"
    /\ LET l == loc[t]
           q(reason) == [l EXCEPT !.reason = reason, !.wait = FALSE, !.received = <<>>]
       IN  IF l.rexc = "" /\ l.received # <<>>
           THEN /\ recvbuf' = recvbuf \o l.received
                /\ Goto(t, "r_rel", [l EXCEPT !.rv = "True", !.received = <<>>])
           ELSE /\ UNCHANGED recvbuf
                /\ IF l.rexc = ""
                   THEN CallSub(t, "qt_acq", "r_eof", q(R_RESET))
                   ELSE IF l.rexc = "again"
                   THEN Goto(t, "r_rel", [l EXCEPT !.rv = "False", !.rexc = ""])
                   ELSE IF l.rexc = "timeout"
                   THEN CallSub(t, "qt_acq", "r_null", q(R_TIMEOUT))
                   ELSE CallSub(t, "qt_acq", "r_null", q(R_NETWORK))
    /\ UNCHANGED <<sock, sockssl, addr, nick, sendbuf, lock, recvlock,
                   wire, delivered, got, limit, sinceQuit, dropped>>

\* return True, after quit('Connection reset by peer.', wait=False)
r_eof(t) ==
    /\ pc[t] = "r_eof"
    /\ Goto(t, "r_rel", [loc[t] EXCEPT !.rv = "True", !.reason = None])
    /\ UNCHANGED <<sock, sockssl, addr, nick, sendbuf, recvbuf, lock, recvlock,
                   wire, delivered, got, limit, sinceQuit, dropped>>

\* finally: self.sock = None; raise
r_null(t) ==
    /\ pc[t] = "r_null"
    /\ sock' = "None"
    /\ sockssl' = FALSE
    /\ Goto(t, "r_rel", [loc[t] EXCEPT !.exc = IF loc[t].rexc = "timeout" THEN "Timeout"
                                                ELSE "SocketError",
                                       !.rexc = "", !.reason = None])
    /\ dropped' = IF sock = "None" THEN dropped ELSE sock
    /\ UNCHANGED <<addr, nick, sendbuf, recvbuf, lock, recvlock,
                   wire, delivered, got, limit, sinceQuit>>

\* finally: self.recvlock.release()
r_rel(t) ==
    /\ pc[t] = "r_rel"
    /\ recvlock' = Released(recvlock)
    /\ Return(t, loc[t])
    /\ UNCHANGED <<sock, sockssl, addr, nick, sendbuf, recvbuf, lock,
                   wire, delivered, got, limit, sinceQuit, dropped>>

-----------------------------------------------------------------------------
(* recvline(), lines 337-351 *)

\* if self.recvlock.acquire(blocking=block): ... else: return None
rl_acq(t) ==
    /\ pc[t] = "rl_acq"
    /\ CanAcquire(recvlock, t) \/ ~loc[t].block
    /\ IF CanAcquire(recvlock, t)
       THEN /\ recvlock' = Acquired(recvlock, t)
            /\ Goto(t, "rl_loop", loc[t])
       ELSE /\ UNCHANGED recvlock
            /\ Return(t, [loc[t] EXCEPT !.rv = "None"])
    /\ UNCHANGED <<sock, sockssl, addr, nick, sendbuf, recvbuf, lock,
                   wire, delivered, got, limit, sinceQuit, dropped>>

\* while self.recvbuf.find(b'\n') == -1 and self.recv(block): pass
rl_loop(t) ==
    /\ pc[t] = "rl_loop"
    /\ IF Find(recvbuf, LF) = 0
       THEN CallSub(t, "r_acq", "rl_recvd", loc[t])
       ELSE Goto(t, "rl_split", loc[t])
    /\ UNCHANGED <<sock, sockssl, addr, nick, sendbuf, recvbuf, lock, recvlock,
                   wire, delivered, got, limit, sinceQuit, dropped>>

\* recv() returned True (again), returned False (the loop ends) or raised
rl_recvd(t) ==
    /\ pc[t] = "rl_recvd"
    /\ IF loc[t].exc # ""
       THEN Goto(t, "rl_rel", loc[t])
       ELSE IF loc[t].rv = "True"
            THEN Goto(t, "rl_loop", [loc[t] EXCEPT !.rv = "None"])
            ELSE Goto(t, "rl_split", [loc[t] EXCEPT !.rv = "None"])
    /\ UNCHANGED <<sock, sockssl, addr, nick, sendbuf, recvbuf, lock, recvlock,
                   wire, delivered, got, limit, sinceQuit, dropped>>

\* LineOf without rstrip(b'\r')
LineOf_keep_cr(raw) == decode(raw)

\* the line recvline() returns for the bytes before the first LF
LineOf(raw) == decode(RStrip(raw, CR))

\* line, self.recvbuf = self.recvbuf.split(b'\n', 1);
\* return line.rstrip(b'\r').decode('utf-8', 'replace'), or return None
rl_split(t) ==
    /\ pc[t] = "rl_split"
    /\ IF Find(recvbuf, LF) # 0
       THEN LET parts == Split1(recvbuf, LF)
            IN  /\ recvbuf' = parts[2]
                /\ got' = Append(got, LineOf(parts[1]))
                /\ Goto(t, "rl_rel", [loc[t] EXCEPT !.rv = "line", !.line = LineOf(parts[1])])
       ELSE /\ UNCHANGED <<recvbuf, got>>
            /\ Goto(t, "rl_rel", [loc[t] EXCEPT !.rv = "None"])
    /\ UNCHANGED <<sock, sockssl, addr, nick, sendbuf, lock, recvlock,
                   wire, delivered, limit, sinceQuit, dropped>>

\* finally: self.recvlock.release()
rl_rel(t) ==
    /\ pc[t] = "rl_rel"
    /\ recvlock' = Released(recvlock)
    /\ Return(t, loc[t])
    /\ UNCHANGED <<sock, sockssl, addr, nick, sendbuf, recvbuf, lock,
                   wire, delivered, got, limit, sinceQuit, dropped>>

-----------------------------------------------------------------------------
(* parse(), lines 353-419 *)

\* if line == None: line = self.recvline(block)
p_start(t) ==
    /\ pc[t] = "p_start"
    /\ IF loc[t].line = None
       THEN CallSub(t, "rl_acq", "p_recvd", loc[t])
       ELSE Goto(t, "p_line", loc[t])
    /\ UNCHANGED <<sock, sockssl, addr, nick, sendbuf, recvbuf, lock, recvlock,
                   wire, delivered, got, limit, sinceQuit, dropped>>

\* recvline() returned a line or None, or raised: the call is in no try
p_recvd(t) ==
    /\ pc[t] = "p_recvd"
    /\ IF loc[t].exc # ""
       THEN Return(t, loc[t])
       ELSE Goto(t, "p_line", [loc[t] EXCEPT !.line = IF loc[t].rv = "line" THEN loc[t].line
                                                      ELSE None,
                                             !.rv = "None"])
    /\ UNCHANGED <<sock, sockssl, addr, nick, sendbuf, recvbuf, lock, recvlock,
                   wire, delivered, got, limit, sinceQuit, dropped>>

\* if line: a PING line is answered with PONG, another line is parsed and a
\* CTCP PING answered with a NOTICE; else: return None.  No statement of
\* the outer try raises for a text line, so its except clause is not reached.
p_line(t) ==
    /\ pc[t] = "p_line"
    /\ LET l == loc[t]
           line == l.line
       IN  IF line # None /\ line # <<>>
           THEN IF StartsWith(line, T_PING)
                THEN CallSub(t, "q_start", "p_done",
                             [l EXCEPT !.ev = PingEvent(line), !.sendnow = TRUE,
                                       !.tmpbuf = QuoteBytes(T_PONG \o SubSeq(line, 6, Len(line)))])
                ELSE LET ev == ParseFields(line)
                     IN  IF IsCtcpPing(ev)
                         THEN CallSub(t, "q_start", "p_done",
                                      [l EXCEPT !.ev = ev, !.sendnow = TRUE,
                                                !.tmpbuf = QuoteBytes(NoticeText(ev.nick, ev.msg))])
                         ELSE Goto(t, "p_done", [l EXCEPT !.ev = ev])
           ELSE Return(t, [l EXCEPT !.rv = "None"])
    /\ UNCHANGED <<sock, sockssl, addr, nick, sendbuf, recvbuf, lock, recvlock,
                   wire, delivered, got, limit, sinceQuit, dropped>>

\* finally: return {'nick': ..., 'ident': ..., 'cmd': ..., 'dest': ..., 'msg': ...}
p_done(t) ==
    /\ pc[t] = "p_done"
    /\ Return(t, [loc[t] EXCEPT !.exc = "", !.rv = "event"])
    /\ UNCHANGED <<sock, sockssl, addr, nick, sendbuf, recvbuf, lock, recvlock,
                   wire, delivered, got, limit, sinceQuit, dropped>>

-----------------------------------------------------------------------------
(* The callers of a single-threaded program: one call at a time *)

\* a thread starts a call; wire then holds what the call writes, and buf0
\* the outbound buffer the call met
StartCall(t, entry, l) ==
    /\ pc[t] = "idle"
    /\ pc' = [pc EXCEPT ![t] = entry]
    /\ loc' = [loc EXCEPT ![t] = [l EXCEPT !.after = sinceQuit, !.buf0 = sendbuf]]
    /\ ret' = [ret EXCEPT ![t] = NoRet]
    /\ wire' = <<>>
    /\ UNCHANGED <<stack, delivered, got, limit, sinceQuit, dropped, relayvars>>

\* a call from outside relay.py's loops
Begin(t, entry, l) ==
    /\ StartCall(t, entry, l)
    /\ UNCHANGED <<sock, sockssl, addr, nick, sendbuf, recvbuf, lock, recvlock, pollvars>>

\* lines in the outbound buffer
Queued(buf) == Cardinality({i \in 1..Len(buf) : buf[i] = LF})

CallConnect(t) ==
    /\ pc[t] = "idle"
    /\ \E ssl \in BOOLEAN : Begin(t, "c_acq", [InitLoc EXCEPT !.op = "connect", !.ssl = ssl])

CallSend(t) ==
    /\ pc[t] = "idle"
    /\ \E b \in {None, <<>>, <<"a", CR, LF>>} :
          Begin(t, "s_acq", [InitLoc EXCEPT !.op = "send", !.sarg = b])

\* a verb method with sendnow=False, by its quote() call
CallQuote(t) ==
    /\ pc[t] = "idle"
    /\ Queued(sendbuf) < MaxQueued
    /\ Begin(t, "q_start", [InitLoc EXCEPT !.op = "quote", !.sendnow = FALSE,
                                           !.tmpbuf = QuoteBytes(<<"a">>)])

CallSetnick(t) ==
    /\ pc[t] = "idle"
    /\ Queued(sendbuf) < MaxQueued
    /\ \E now \in BOOLEAN :
          Begin(t, "n_set", [InitLoc EXCEPT !.op = "setnick", !.sendnow = now,
                                            !.newnick = <<"n", " ", "k">>])

CallQuit(t) ==
    /\ pc[t] = "idle"
    /\ \E wait \in BOOLEAN, reason \in {None, <<"x">>} :
          Begin(t, "qt_acq", [InitLoc EXCEPT !.op = "quit", !.wait = wait, !.reason = reason])

CallRecv(t) ==
    /\ pc[t] = "idle"
    /\ \E block \in BOOLEAN : Begin(t, "r_acq", [InitLoc EXCEPT !.op = "recv", !.block = block])

CallRecvline(t) ==
    /\ pc[t] = "idle"
    /\ \E block \in BOOLEAN :
          Begin(t, "rl_acq", [InitLoc EXCEPT !.op = "recvline", !.block = block])

\* parse(block): the line is read from the socket; parse(line='PING a')
CallParse(t) ==
    /\ pc[t] = "idle"
    /\ \/ \E block \in BOOLEAN :
             Begin(t, "p_start", [InitLoc EXCEPT !.op = "parse", !.block = block, !.line = None])
       \/ Begin(t, "p_start", [InitLoc EXCEPT !.op = "parse", !.line = T_PING \o <<"a">>])

\* the state after IRCConnection() (lines 68-76)
InitObject ==
    /\ sock = "None"
    /\ sockssl = FALSE
    /\ addr = "None"
    /\ nick = None
    /\ recvbuf = <<>>
    /\ sendbuf = <<>>
    /\ lock = Free
    /\ recvlock = Free

\* no /t2i or /i2t command yet
NoCmd == [cmd |-> "", expr |-> "", chat |-> "", before |-> FALSE, reply |-> ""]

\* no thread is in a call
InitCalls ==
    /\ pc = [t \in Threads |-> "idle"]
    /\ stack = [t \in Threads |-> <<>>]
    /\ loc = [t \in Threads |-> InitLoc]
    /\ ret = [t \in Threads |-> NoRet]
    /\ wire = <<>>
    /\ delivered = <<>>
    /\ got = <<>>
    /\ sinceQuit = FALSE
    /\ dropped = "None"

\* the keys given to an LRUCache
CacheKeys == 1..MaxKeys

\* no call of the LRUCache yet; stamp[k] is the number of the last call that
\* set or found the key k (0: none), prev what stamp was before the last call
NoOp == [op |-> "", key |-> 0, value |-> "", found |-> FALSE, result |-> "",
         before |-> <<>>, clock |-> 0,
         stamp |-> [k \in CacheKeys |-> 0], prev |-> [k \in CacheKeys |-> 0]]

\* no message yet
NoMsg == [id |-> 0, from |-> "", ircuser |-> None, text |-> <<>>, chat |-> ""]

\* an empty LRUCache, and getircupd not started
InitRelay ==
    /\ capacity = 1
    /\ cache = <<>>
    /\ lastop = NoOp
    /\ loop = [t \in Threads |-> "off"]
    /\ MSG_Q = <<>>
    /\ fwdmsg = NoMsg

\* relay.py with both directions enabled in config.json
InitThreads ==
    /\ InitCalls
    /\ CFG = [t2i |-> TRUE, i2t |-> TRUE]
    /\ lastcmd = NoCmd
    /\ InitRelay

Init ==
    /\ InitObject
    /\ InitThreads
    /\ limit = MaxInbound

\* one step of a call a thread is in
Step(t) ==
    \/ c_acq(t) \/ c_addr(t) \/ c_sock(t) \/ c_conn(t) \/ c_reset(t) \/ c_rel(t)
    \/ s_acq(t) \/ s_chk(t) \/ s_write(t) \/ s_clear(t) \/ s_fail(t) \/ s_rel(t)
    \/ q_start(t) \/ q_read(t) \/ q_write(t) \/ n_set(t)
    \/ qt_acq(t) \/ qt_chk(t) \/ qt_flush(t) \/ qt_sleep(t) \/ qt_close(t)
    \/ qt_reset(t) \/ qt_rel(t)
    \/ r_acq(t) \/ r_chk(t) \/ r_read(t) \/ r_restore(t) \/ r_disp(t) \/ r_eof(t)
    \/ r_null(t) \/ r_rel(t)
    \/ rl_acq(t) \/ rl_loop(t) \/ rl_recvd(t) \/ rl_split(t) \/ rl_rel(t)
    \/ p_start(t) \/ p_recvd(t) \/ p_line(t) \/ p_done(t)

\* one caller
Next ==
    \/ CallConnect(1) \/ CallSend(1) \/ CallQuote(1) \/ CallSetnick(1) \/ CallQuit(1)
    \/ CallRecv(1) \/ CallRecvline(1) \/ CallParse(1)
    \/ Step(1)

Spec == Init /\ [][Next]_vars

-----------------------------------------------------------------------------
(* Claims about one caller (Spec) *)

\* C1: when quit() has returned, sock, nick and addr are None, whatever they
\* were and whatever wait was; sock and addr stay None until connect() is
\* called, and every send() and recv() called in between raises the
\* ENOTSOCK socket.error.
C1_AfterQuit ==
    /\ (pc[1] = "idle" /\ ret[1].op = "quit") =>
           (sock = "None" /\ nick = None /\ addr = "None")
    /\ sinceQuit => (sock = "None" /\ addr = "None")
    /\ (pc[1] = "idle" /\ ret[1].after /\ ret[1].op \in {"send", "recv"}) =>
           ret[1].exc = "ENOTSOCK"

\* a send() called after the quit() that closed a socket has raised ENOTSOCK
C1_Witness ==
    /\ pc[1] = "idle" /\ ret[1].after /\ ret[1].op = "send"
    /\ ret[1].exc = "ENOTSOCK" /\ dropped = "closed"

\* C2: between calls sock is None or a connected socket; in particular a
\* connect() that failed has left sock None.
C2_SockNoneOrConnected ==
    pc[1] = "idle" => sock \in {"None", "connected"}

\* C4: when send() or recv() has raised a transport error (a failed write, a
\* socket.timeout, a socket.error other than EAGAIN), the socket is closed
\* and sock is None.
C4_ErrorClosesAndNulls ==
    (pc[1] = "idle" /\ ret[1].op \in {"send", "recv"}
                    /\ ret[1].exc \in {"SocketError", "Timeout"}) =>
        (sock = "None" /\ dropped = "closed")

\* a recv() on a connected socket has raised socket.timeout
C4_Witness ==
    /\ pc[1] = "idle" /\ ret[1].op = "recv" /\ ret[1].exc = "Timeout"
    /\ sock = "None"

\* C6 (first half): a recv() that read b'' has called quit() and returned True
C6_RecvEofReturnsTrue ==
    (pc[1] = "idle" /\ ret[1].op = "recv" /\ ret[1].eof) =>
        (ret[1].exc = "" /\ ret[1].rv = "True" /\ sock = "None")

\* C6: a recv() that read b'' has called quit() and returned True, and a
\* non-blocking recvline() or parse() during which b'' was read returns None
\* and does not raise.
C6_EofIsNoLine ==
    /\ C6_RecvEofReturnsTrue
    /\ (pc[1] = "idle" /\ ret[1].op \in {"recvline", "parse"} /\ ~ret[1].block
                       /\ ret[1].eof) =>
           (ret[1].exc = "" /\ ret[1].rv = "None")

\* C9: parse() raises nothing, whatever the socket is.
C9_ParseNeverRaises ==
    (pc[1] = "idle" /\ ret[1].op = "parse") => ret[1].exc = ""

-----------------------------------------------------------------------------
(* Line framing: one reader on a connected socket (SpecFrame) *)

\* the state after a successful connect() (lines 86-104)
InitConnected ==
    /\ sock = "connected"
    /\ sockssl \in BOOLEAN
    /\ addr = "ADDR"
    /\ nick = None
    /\ recvbuf = <<>>
    /\ sendbuf = <<>>
    /\ lock = Free
    /\ recvlock = Free

InitFrame ==
    /\ InitConnected
    /\ InitThreads
    /\ limit = MaxStream

NextFrame ==
    \/ CallRecv(1) \/ CallRecvline(1)
    \/ r_acq(1) \/ r_chk(1) \/ r_read(1) \/ r_restore(1) \/ r_disp(1) \/ r_eof(1)
    \/ r_null(1) \/ r_rel(1)
    \/ rl_acq(1) \/ rl_loop(1) \/ rl_recvd(1) \/ rl_split(1) \/ rl_rel(1)
    \/ qt_acq(1) \/ qt_chk(1) \/ qt_flush(1) \/ qt_sleep(1) \/ qt_close(1)
    \/ qt_reset(1) \/ qt_rel(1)
    \/ q_start(1) \/ s_acq(1) \/ s_chk(1) \/ s_write(1) \/ s_fail(1) \/ s_rel(1)

SpecFrame == InitFrame /\ [][NextFrame]_vars

\* the positions of the line feeds of a byte stream
LfAt(stream) == {i \in 1..Len(stream) : stream[i] = LF}

\* the position of the n-th line feed (0 for n = 0)
NthLf(stream, n) ==
    IF n = 0 THEN 0
    ELSE CHOOSE i \in LfAt(stream) : Cardinality({j \in LfAt(stream) : j <= i}) = n

\* the bytes of the n-th line of a stream, without its line feed
RawLine(stream, n) == SubSeq(stream, NthLf(stream, n - 1) + 1, NthLf(stream, n) - 1)

\* a raw line as text: without the carriage returns at its end, each byte
\* that is no UTF-8 replaced
AsText(raw) ==
    LET keep == {i \in 1..Len(raw) : raw[i] # CR}
        n == IF keep = {} THEN 0 ELSE CHOOSE i \in keep : \A j \in keep : j <= i
    IN  [i \in 1..n |-> IF raw[i] = "xFF" THEN "uFFFD" ELSE raw[i]]

\* C5: whatever chunks the socket delivered, the lines recvline() returned
\* so far are the first line-feed-terminated lines of the delivered stream,
\* in order, each once, without the carriage returns at their end; recvbuf
\* holds exactly the delivered bytes after the last returned line; and
\* recvline() returns None only when recvbuf holds no complete line.
C5_LinesInOrder ==
    pc[1] = "idle" =>
        LET n == Len(got)
        IN  /\ n <= Cardinality(LfAt(delivered))
            /\ \A i \in 1..n : got[i] = AsText(RawLine(delivered, i))
            /\ recvbuf = SubSeq(delivered, NthLf(delivered, n) + 1, Len(delivered))
            /\ (ret[1].op = "recvline" /\ ret[1].exc = "") =>
                  IF ret[1].rv = "line"
                  THEN n > 0 /\ ret[1].line = got[n]
                  ELSE ret[1].rv = "None" /\ LfAt(recvbuf) = {}

\* the socket delivered "a CR LF a" and recvline() returned "a"; the last
\* byte waits in recvbuf
C5_Witness ==
    /\ pc[1] = "idle" /\ ret[1].op = "recvline" /\ ret[1].rv = "line"
    /\ ret[1].line = <<"a">>
    /\ delivered = <<"a", CR, LF, "a">>
    /\ recvbuf = <<"a">>

\* a non-blocking recvline() returned None with half a line in recvbuf
C5_WitnessNone ==
    /\ pc[1] = "idle" /\ ret[1].op = "recvline" /\ ~ret[1].block
    /\ ret[1].exc = "" /\ ret[1].rv = "None"
    /\ recvbuf # <<>> /\ Len(got) > 0

-----------------------------------------------------------------------------
(* The parser on given lines: parse(line=...) on a connected socket (SpecParse) *)

LineChars == {":", " ", "!", "a", CR}

\* every line of at most MaxLineLen characters
ShortLines == SeqsUpTo(LineChars, MaxLineLen)

\* 'PING ' and whatever follows
PingLines == {T_PING \o rest : rest \in ShortLines}

Prefixes == {<<>>, <<":">>, <<":", "n">>, <<":", "n", "!", "i">>,
             <<":", "n", "!", "i", "!", "j">>}

Verbs == {T_KICK, T_PRIVMSG, <<"F">>}

Words == {<<>>, <<"#">>, <<"b">>, <<":">>, <<":", "x">>,
          <<":", "x01", "P", "I", "N", "G">>}

RECURSIVE Spaced(_)
\* the words, each after a space
Spaced(ws) == IF ws = <<>> THEN <<>> ELSE <<SP>> \o Head(ws) \o Spaced(Tail(ws))

\* [prefix SP] verb {SP word}
GrammarLines ==
    {(IF p = <<>> THEN <<>> ELSE p \o <<SP>>) \o v \o Spaced(ws) :
        p \in Prefixes, v \in Verbs, ws \in SeqsUpTo(Words, MaxWords)}

\* a PRIVMSG whose payload starts with the CTCP PING marker, from a sender
\* with or without nick and ident
CtcpLines ==
    {(IF p = <<>> THEN <<>> ELSE p \o <<SP>>) \o T_PRIVMSG \o <<SP, "#", SP, ":">>
        \o T_CTCPPING \o rest :
        p \in {<<>>, <<":">>, <<":", "n">>, <<":", "n", "!", "i">>},
        rest \in SeqsUpTo({"a", CR}, 2)}

Lines == ShortLines \cup PingLines \cup GrammarLines \cup CtcpLines

\* parse(line=line), once in a behaviour: the object it meets is drawn by
\* InitParse
CallParseLine(t) ==
    /\ pc[t] = "idle"
    /\ ret[t] = NoRet
    /\ \E line \in Lines :
          Begin(t, "p_start", [InitLoc EXCEPT !.op = "parse", !.line = line])

\* connected or not, with or without a line waiting in the outbound buffer
InitParse ==
    /\ \/ sock = "connected" /\ addr = "ADDR"
       \/ sock = "None" /\ addr = "None"
    /\ sockssl = FALSE
    /\ nick = None
    /\ recvbuf = <<>>
    /\ sendbuf \in {<<>>, <<"a", CR, LF>>}
    /\ lock = Free
    /\ recvlock = Free
    /\ InitThreads
    /\ limit = 0

NextParse ==
    \/ CallParseLine(1)
    \/ p_start(1) \/ p_line(1) \/ p_done(1)
    \/ q_start(1) \/ s_acq(1) \/ s_chk(1) \/ s_write(1) \/ s_fail(1) \/ s_rel(1)

SpecParse == InitParse /\ [][NextParse]_vars

\* a parse(line=...) call has finished
Parsed == pc[1] = "idle" /\ ret[1].op = "parse" /\ ret[1].arg # None

\* the line after its origin prefix
Body(line) ==
    IF line # <<>> /\ line[1] = ":"
    THEN IF \E i \in 1..Len(line) : line[i] = SP
         THEN SubSeq(line, 1 + CHOOSE i \in 1..Len(line) :
                                   line[i] = SP /\ \A j \in 1..(i - 1) : line[j] # SP,
                     Len(line))
         ELSE <<>>
    ELSE line

HasNo(s, ch) == \A i \in 1..Len(s) : s[i] # ch

\* C7: for a line 'PING <rest>' parse() writes the one line 'PONG <rest>' and
\* nothing else to the socket, and returns the event with verb PING, no nick,
\* ident or destination, and <rest> without a leading colon as payload (the
\* socket being connected, and still so afterwards).
C7_PingOnePong ==
    (Parsed /\ StartsWith(ret[1].arg, T_PING) /\ sock = "connected") =>
        LET rest == SubSeq(ret[1].arg, 6, Len(ret[1].arg))
        IN  /\ ret[1].exc = "" /\ ret[1].rv = "event"
            /\ ret[1].ev = Event(None, None, <<"P", "I", "N", "G">>, DNone,
                                 IF rest # <<>> /\ rest[1] = ":" THEN Tail(rest) ELSE rest)
            /\ wire = T_PONG \o rest \o <<CR, LF>>

\* C7 for the lines whose <rest> holds no carriage return
C7_PingOnePongNoBreak ==
    (Parsed /\ HasNo(ret[1].arg, CR)) => C7_PingOnePong

\* a line without a verb: empty, an origin prefix alone, or a space where
\* the verb should start
Malformed(line) == Body(line) = <<>> \/ Body(line)[1] = SP

\* C8: parse() raises for no line, and for an empty or malformed line it
\* returns the event with nick, ident and verb None and the line as payload.
C8_MalformedFallsBack ==
    Parsed =>
        /\ ret[1].exc = ""
        /\ Malformed(ret[1].arg) =>
               (ret[1].rv = "event" /\ ret[1].ev = FallbackEvent(ret[1].arg))

\* C8 (first half): parse() raises for no line
C8_NoRaise == Parsed => ret[1].exc = ""

\* 'KICK <chan>' after the origin prefix: a channel and nothing else
KickChanOnly(line) ==
    LET b == Body(line)
    IN  /\ StartsWith(b, T_KICK \o <<SP>>)
        /\ Len(b) > 5
        /\ b[6] # ":"
        /\ HasNo(SubSeq(b, 6, Len(b)), SP)

\* a verb and nothing else after the origin prefix
VerbOnly(line) == Body(line) # <<>> /\ HasNo(Body(line), SP)

\* C10 (second half): a line with a verb and no parameter parses to
\* destination None and payload None
C10_VerbOnly ==
    (Parsed /\ VerbOnly(ret[1].arg) /\ ~StartsWith(ret[1].arg, T_PING)) =>
        (ret[1].rv = "event" /\ ret[1].ev.dest = DNone /\ ret[1].ev.msg = None
                             /\ ret[1].ev.cmd = Body(ret[1].arg))

\* C10: a KICK line with a channel and no target parses to the destination
\* (channel, None) and payload None; a line with a verb and no parameter
\* parses to destination None and payload None.
C10_KickWithoutTarget ==
    /\ C10_VerbOnly
    /\ (Parsed /\ KickChanOnly(ret[1].arg)) =>
           LET b == Body(ret[1].arg)
           IN  /\ ret[1].rv = "event"
               /\ ret[1].ev.dest = DPair(SubSeq(b, 6, Len(b)), None)
               /\ ret[1].ev.msg = None

\* what the code does with that KICK line: the channel comes second
C10_KickAsCoded ==
    (Parsed /\ KickChanOnly(ret[1].arg)) =>
        LET b == Body(ret[1].arg)
        IN  /\ ret[1].rv = "event"
            /\ ret[1].ev.dest = DPair(None, SubSeq(b, 6, Len(b)))
            /\ ret[1].ev.msg = None

-----------------------------------------------------------------------------
(* Two threads on one connected object (SpecConc): thread 1 queues lines and
   flushes them with send(), thread 2 calls recv() *)

Sender == 1
Receiver == 2

\* a step of the sender inside quote() or send()
SenderStep ==
    \/ q_start(Sender) \/ q_read(Sender) \/ q_write(Sender)
    \/ s_acq(Sender) \/ s_chk(Sender) \/ s_write(Sender) \/ s_clear(Sender)
    \/ s_fail(Sender) \/ s_rel(Sender)

\* a step of the receiver inside recv(), or inside the quit() recv() calls
ReceiverStep ==
    \/ r_acq(Receiver) \/ r_chk(Receiver) \/ r_read(Receiver) \/ r_restore(Receiver)
    \/ r_disp(Receiver) \/ r_eof(Receiver) \/ r_null(Receiver) \/ r_rel(Receiver)
    \/ qt_acq(Receiver) \/ qt_chk(Receiver) \/ qt_flush(Receiver) \/ qt_sleep(Receiver)
    \/ qt_close(Receiver) \/ qt_reset(Receiver) \/ qt_rel(Receiver)
    \/ q_start(Receiver) \/ s_acq(Receiver) \/ s_chk(Receiver) \/ s_write(Receiver)
    \/ s_fail(Receiver) \/ s_rel(Receiver)

InitConc ==
    /\ InitConnected
    /\ InitThreads
    /\ limit = MaxInbound

NextConc ==
    \/ CallQuote(Sender)
    \/ CallSend(Sender)
    \/ CallRecv(Receiver)
    \/ SenderStep
    \/ ReceiverStep

SpecConc == InitConc /\ [][NextConc]_vars

\* the thread waits for a lock another thread holds: every other label of a
\* call can always be left
Blocked(t) ==
    \/ pc[t] \in {"c_acq", "s_acq", "qt_acq"} /\ ~CanAcquire(lock, t)
    \/ pc[t] = "r_acq" /\ ~CanAcquire(recvlock, t)
    \/ pc[t] = "rl_acq" /\ loc[t].block /\ ~CanAcquire(recvlock, t)

\* some thread is inside a call and no thread inside a call can take a step
Deadlocked ==
    /\ \E t \in Threads : pc[t] # "idle"
    /\ \A t \in Threads : pc[t] = "idle" \/ Blocked(t)

\* the labels of send() and of recv()
SendLabels == {"s_acq", "s_chk", "s_write", "s_clear", "s_fail", "s_rel"}
RecvLabels == {"r_acq", "r_chk", "r_read", "r_restore", "r_disp", "r_eof", "r_null", "r_rel"}

\* C3: with one thread flushing the outbound buffer by send() and one calling
\* recv() on the same object, no interleaving deadlocks; no step of the
\* sender's send() changes recvbuf, and no step of recv() itself (so none of a
\* recv() call that reads data) changes sendbuf: a read of data only appends
\* the data to recvbuf.
C3_NoDeadlockNoInterference ==
    /\ [](~Deadlocked)
    /\ [][/\ (pc[Sender] \in SendLabels /\ pc'[Sender] # pc[Sender]) =>
                 recvbuf' = recvbuf
          /\ (pc[Receiver] \in RecvLabels /\ pc'[Receiver] # pc[Receiver]) =>
                 /\ sendbuf' = sendbuf
                 /\ recvbuf' \in {recvbuf, recvbuf \o loc[Receiver].received}]_vars

\* the receiver holds recvlock and waits in quit() for the lock the sender
\* holds while it writes the queued line
C3_Witness ==
    /\ pc[Sender] = "s_write" /\ loc[Sender].sarg = None /\ sendbuf # <<>>
    /\ pc[Receiver] = "qt_acq" /\ ~CanAcquire(lock, Receiver)
    /\ recvlock.owner = Receiver

\* both have gone through: the sender flushed while the receiver read data
C3_WitnessBoth ==
    /\ pc[Sender] = "s_clear" /\ wire # <<>>
    /\ pc[Receiver] = "r_rel" /\ loc[Receiver].rv = "True" /\ recvbuf # <<>>

\* ':<n>!<i> KICK <ch> <tg> :<tx>'
KickLine(n, i, ch, tg, tx) ==
    <<":">> \o n \o <<"!">> \o i \o <<SP>> \o T_KICK \o <<SP>> \o ch \o <<SP>> \o tg
            \o <<SP, ":">> \o tx

\* the tokens of the lines of SpecParse: nick, ident, parameter, text
NickTokens == {<<"n">>}
IdentTokens == {<<"i">>, <<"i", "!", "j">>}
ParamTokens == {<<"#">>, <<"b">>}
TextTokens == {<<>>, <<"x">>, <<"x01", "P", "I", "N", "G">>}

\* C11: the line ':<nick>!<ident> KICK <chan> <target> :<text>' parses to the
\* verb KICK, nick <nick>, ident everything after the first '!', destination
\* the pair (<chan>, <target>) and payload <text>; an event whose verb is not
\* KICK never has a pair as destination, and has the first parameter as
\* destination when that does not start with a colon.
C11_KickPair ==
    (Parsed /\ ret[1].rv = "event") =>
        /\ \A n \in NickTokens, i \in IdentTokens, ch \in ParamTokens,
              tg \in ParamTokens, tx \in TextTokens :
              ret[1].arg = KickLine(n, i, ch, tg, tx) =>
                  ret[1].ev = Event(n, i, T_KICK, DPair(ch, tg), tx)
        /\ ret[1].ev.cmd # T_KICK =>
              /\ ret[1].ev.dest.k # "pair"
              /\ \A v \in Verbs \ {T_KICK}, d \in ParamTokens :
                    StartsWith(Body(ret[1].arg), v \o <<SP>> \o d) =>
                        ret[1].ev.dest = DStr(d)

\* ':n!i!j KICK # b :x' was parsed
C11_Witness ==
    /\ Parsed
    /\ ret[1].arg = KickLine(<<"n">>, <<"i", "!", "j">>, <<"#">>, <<"b">>, <<"x">>)
    /\ ret[1].ev.ident = <<"i", "!", "j">>
    /\ ret[1].ev.dest = DPair(<<"#">>, <<"b">>)

\* ':n!i PRIVMSG # b' was parsed: a second parameter and no pair
C11_WitnessOther ==
    /\ Parsed
    /\ Body(ret[1].arg) = T_PRIVMSG \o <<SP, "#", SP, "b">>
    /\ ret[1].ev.dest = DStr(<<"#">>)

-----------------------------------------------------------------------------
(* The verb methods: one verb call on an object, then flushes and the echo
   of what say() wrote (SpecVerb) *)

ArgChars == {"a", CR, LF}

\* message bodies and other free text
Texts ==
    SeqsUpTo(ArgChars, MaxArgLen)
        \cup {<<":", "a">>, <<SP, "a", SP>>, <<"a", LF, LF, "a">>, T_CTCPPING \o <<"a">>}

\* channel and nick arguments
Dests == {<<"#">>, <<"#", "a">>, <<"#", LF>>, <<"b", SP, CR>>}

\* optional arguments: key, reason, mode, topic, realname
Opts == {None, <<"a">>, <<"a", LF, "a">>, <<CR, "a", LF>>}

\* the arguments a verb is called with
VerbArgs(verb) ==
    CASE verb = "setpass" -> {<<x, None, None>> : x \in Texts}
      [] verb = "setuser" -> {<<i, r, None>> : i \in Dests \cup {None}, r \in Opts}
      [] verb \in {"join", "part", "mode", "topic"} -> {<<d, o, None>> : d \in Dests, o \in Opts}
      [] verb \in {"say", "me"} -> {<<d, x, None>> : d \in Dests, x \in Texts}
      [] verb = "notice" -> {<<d, x, None>> : d \in Dests, x \in Texts \cup {None}}
      [] verb = "kick" -> {<<d, e, o>> : d \in Dests, e \in Dests, o \in Opts}
      [] verb = "away" -> {<<o, None, None>> : o \in Opts \cup Texts}
      [] verb = "invite" -> {<<d, e, None>> : d \in Dests, e \in Dests}

\* the first call on the object: a verb method with its arguments
CallVerb(t) ==
    /\ pc[t] = "idle"
    /\ ret[t] = NoRet
    /\ \E verb \in VerbNames, now \in BOOLEAN :
          \E a \in VerbArgs(verb) :
             Begin(t, "v_fmt", [InitLoc EXCEPT !.op = verb, !.args = a, !.sendnow = now])

\* the first call on the object: setnick(newnick)
CallSetnickText(t) ==
    /\ pc[t] = "idle"
    /\ ret[t] = NoRet
    /\ \E x \in Texts, now \in BOOLEAN :
          Begin(t, "n_set", [InitLoc EXCEPT !.op = "setnick", !.sendnow = now, !.newnick = x,
                                            !.args = <<x, None, None>>])

\* the first call on the object: quit(reason, wait)
CallQuitText(t) ==
    /\ pc[t] = "idle"
    /\ ret[t] = NoRet
    /\ \E x \in Opts, wait \in BOOLEAN :
          Begin(t, "qt_acq", [InitLoc EXCEPT !.op = "quit", !.wait = wait, !.reason = x,
                                             !.args = <<x, None, None>>])

\* the origin a server puts before a line it relays
EchoOrigin == <<":", "n", "!", "i", "@", "h", SP>>

\* the first line of the bytes b, without its CR LF
FirstLine(b) == RStrip(Split1(b, LF)[1], CR)

\* the server relays the first line say() wrote, and parse() gets it
CallEcho(t) ==
    /\ pc[t] = "idle"
    /\ ret[t].op = "say"
    /\ wire # <<>>
    /\ Begin(t, "p_start", [InitLoc EXCEPT !.op = "parse", !.args = ret[t].args,
                                           !.line = EchoOrigin \o decode(FirstLine(wire))])

InitVerb ==
    /\ \/ sock = "connected" /\ addr = "ADDR"
       \/ sock = "None" /\ addr = "None"
    /\ sockssl = FALSE
    /\ nick \in {None, <<"n">>}
    /\ recvbuf = <<>>
    /\ sendbuf \in {<<>>, <<"a", CR, LF>>, <<"a", CR, LF, "b", CR, LF>>}
    /\ lock = Free
    /\ recvlock = Free
    /\ InitThreads
    /\ limit = 0

NextVerb ==
    \/ CallVerb(1) \/ CallSetnickText(1) \/ CallQuitText(1) \/ CallSend(1) \/ CallEcho(1)
    \/ v_fmt(1) \/ n_set(1)
    \/ q_start(1) \/ q_read(1) \/ q_write(1)
    \/ s_acq(1) \/ s_chk(1) \/ s_write(1) \/ s_clear(1) \/ s_fail(1) \/ s_rel(1)
    \/ qt_acq(1) \/ qt_chk(1) \/ qt_flush(1) \/ qt_sleep(1) \/ qt_close(1)
    \/ qt_reset(1) \/ qt_rel(1)
    \/ p_start(1) \/ p_line(1) \/ p_done(1)

SpecVerb == InitVerb /\ [][NextVerb]_vars

\* the echo of a say(d, x) was parsed
Echoed == pc[1] = "idle" /\ ret[1].op = "parse" /\ ret[1].args[1] # None

\* a channel name: '#' and no whitespace
IsChannel(d) == d # <<>> /\ d[1] = "#" /\ HasNo(d, SP) /\ HasNo(d, CR) /\ HasNo(d, LF)

\* a non-empty text of one line
IsOneLine(x) == x # <<>> /\ HasNo(x, CR) /\ HasNo(x, LF)

\* C12: for a channel name d and a non-empty one-line text x, the line
\* say(d, x) writes, without its CR LF and after an origin prefix, parses to
\* the verb PRIVMSG, destination d and payload x.
C12_SayParseRoundTrip ==
    (Echoed /\ IsChannel(ret[1].args[1]) /\ IsOneLine(ret[1].args[2])) =>
        /\ ret[1].rv = "event"
        /\ ret[1].ev.cmd = T_PRIVMSG
        /\ ret[1].ev.dest = DStr(ret[1].args[1])
        /\ ret[1].ev.msg = ret[1].args[2]
        /\ ret[1].ev.nick = <<"n">>

\* say('#a', ':a') went round: the text keeps its colon
C12_Witness ==
    /\ Echoed
    /\ ret[1].args = <<<<"#", "a">>, <<":", "a">>, None>>
    /\ ret[1].ev.msg = <<":", "a">>
    /\ ret[1].ev.dest = DStr(<<"#", "a">>)

\* the bytes are lines that each end with CR LF and hold no other CR or LF
WellFramed(b) ==
    /\ b # <<>> => b[Len(b)] = LF
    /\ \A i \in 1..Len(b) :
          /\ b[i] = CR => (i < Len(b) /\ b[i + 1] = LF)
          /\ b[i] = LF => (i > 1 /\ b[i - 1] = CR)

\* C13: what a verb method hands to the transport (quote()'s tmpbuf, which
\* is sent or appended to the outbound buffer) is made of lines that each end
\* with CR LF and hold no other CR or LF, whatever CR and LF the arguments held.
C13_VerbLinesFramed ==
    \A t \in Threads : pc[t] = "q_start" => WellFramed(loc[t].tmpbuf)

\* kick() with a line feed in its channel and in its reason reaches quote()
C13_Witness ==
    /\ pc[1] = "q_start"
    /\ loc[1].op = "kick"
    /\ loc[1].args = <<<<"#", LF>>, <<"b", SP, CR>>, <<"a", LF, "a">>>>
    /\ loc[1].tmpbuf = T_KICK \o <<SP, "#", SP, "b", SP, ":", "a", SP, "a", CR, LF>>

-----------------------------------------------------------------------------
(* quit() and the buffers *)

\* C14: when quit() has returned, sock, addr and nick are None and both the
\* outbound and the inbound buffer are empty.
C14_QuitEmptiesAll ==
    (pc[1] = "idle" /\ ret[1].op = "quit") =>
        /\ sock = "None" /\ addr = "None" /\ nick = None
        /\ sendbuf = <<>>
        /\ recvbuf = <<>>

\* C14 without the inbound buffer
C14_QuitEmptiesOutbound ==
    (pc[1] = "idle" /\ ret[1].op = "quit") =>
        (sock = "None" /\ addr = "None" /\ nick = None /\ sendbuf = <<>>)

-----------------------------------------------------------------------------
(* relay.py: the commands /t2i and /i2t, lines 441-461 (SpecCmd) *)

\* the state of the IRCConnection and of its callers
ircvars == <<sock, sockssl, addr, nick, sendbuf, recvbuf, lock, recvlock,
             pc, stack, loc, ret, wire, delivered, got, limit, sinceQuit, dropped>>

\* what follows the command name; "x" and "ON" stand for any other text
Exprs == {"", "on", "off", "x", "ON"}

\* where the message came from: the configured group, another group, a
\* private chat
Chats == {"group", "other", "private"}

\* a command body: the flag becomes False when expr is 'off' or the flag is
\* set, else True when expr is 'on' or the flag is not set; sendmsg() says
\* which
ToggleFlag(name, expr, chat) ==
    /\ expr \in Exprs
    /\ chat \in Chats
    /\ IF chat = "group"
       THEN IF expr = "off" \/ CFG[name]
            THEN /\ CFG' = [CFG EXCEPT ![name] = FALSE]
                 /\ lastcmd' = [cmd |-> name, expr |-> expr, chat |-> chat,
                                before |-> CFG[name], reply |-> "disabled"]
            ELSE IF expr = "on" \/ ~CFG[name]
            THEN /\ CFG' = [CFG EXCEPT ![name] = TRUE]
                 /\ lastcmd' = [cmd |-> name, expr |-> expr, chat |-> chat,
                                before |-> CFG[name], reply |-> "enabled"]
            ELSE /\ UNCHANGED CFG
                 /\ lastcmd' = [cmd |-> name, expr |-> expr, chat |-> chat,
                                before |-> CFG[name], reply |-> ""]
       ELSE /\ UNCHANGED CFG
            /\ lastcmd' = [cmd |-> name, expr |-> expr, chat |-> chat,
                           before |-> CFG[name], reply |-> ""]
    /\ UNCHANGED <<ircvars, capacity, cache, lastop, pollvars>>

\* cmd_t2i(expr, chatid, replyid, msg)
cmd_t2i == \E expr \in Exprs, chat \in Chats : ToggleFlag("t2i", expr, chat)

\* cmd_i2t(expr, chatid, replyid, msg)
cmd_i2t == \E expr \in Exprs, chat \in Chats : ToggleFlag("i2t", expr, chat)

\* CFG.get() of a flag config.json leaves out is falsy
InitCmd ==
    /\ InitObject
    /\ InitCalls
    /\ limit = 0
    /\ CFG \in [t2i : BOOLEAN, i2t : BOOLEAN]
    /\ lastcmd = NoCmd
    /\ InitRelay

NextCmd == cmd_t2i \/ cmd_i2t

SpecCmd == InitCmd /\ [][NextCmd]_vars

\* C15: after '/t2i on' in the configured group the flag t2i is set and
\* after '/t2i off' it is not, whatever it was before; with no argument the
\* flag is the opposite of what it was; the same for /i2t and the flag i2t.
C15_OnOffToggle ==
    (lastcmd.cmd \in {"t2i", "i2t"} /\ lastcmd.chat = "group") =>
        /\ lastcmd.expr = "on" => CFG[lastcmd.cmd]
        /\ lastcmd.expr = "off" => ~CFG[lastcmd.cmd]
        /\ lastcmd.expr = "" => CFG[lastcmd.cmd] = ~lastcmd.before

\* C15 without 'on': 'off' clears the flag and no argument toggles it
C15_OffAndToggle ==
    (lastcmd.cmd \in {"t2i", "i2t"} /\ lastcmd.chat = "group") =>
        /\ lastcmd.expr = "off" => ~CFG[lastcmd.cmd]
        /\ lastcmd.expr = "" => CFG[lastcmd.cmd] = ~lastcmd.before

\* what the code does with any argument but 'off': it toggles
C15_OnToggles ==
    (lastcmd.cmd \in {"t2i", "i2t"} /\ lastcmd.chat = "group" /\ lastcmd.expr # "off") =>
        CFG[lastcmd.cmd] = ~lastcmd.before

-----------------------------------------------------------------------------
(* One thread queues lines with sendnow=False while another flushes with
   send() (SpecQueue); wire holds all that was written *)

Queuer == 1
Flusher == 2

\* a thread starts a call; wire goes on collecting what is written
BeginKeep(t, entry, l) ==
    /\ pc[t] = "idle"
    /\ pc' = [pc EXCEPT ![t] = entry]
    /\ loc' = [loc EXCEPT ![t] = [l EXCEPT !.buf0 = sendbuf]]
    /\ ret' = [ret EXCEPT ![t] = NoRet]
    /\ UNCHANGED <<sock, sockssl, addr, nick, sendbuf, recvbuf, lock, recvlock,
                   stack, wire, delivered, got, limit, sinceQuit, dropped, relayvars,
                   pollvars>>

\* the lines the queuer queues, in this order
QueueLines == <<<<"a">>, <<"b">>>>

\* the lines the queuer has queued (quote() returned)
QueuedSoFar ==
    IF ret[Queuer].op = "quote"
    THEN CHOOSE n \in 1..Len(QueueLines) : QueueLines[n] = ret[Queuer].args[1]
    ELSE 0

\* the queuer starts quote(line, sendnow=False) for its next line
CallQueue(t) ==
    /\ pc[t] = "idle"
    /\ QueuedSoFar < Len(QueueLines)
    /\ LET line == QueueLines[QueuedSoFar + 1]
       IN  BeginKeep(t, "q_start", [InitLoc EXCEPT !.op = "quote", !.sendnow = FALSE,
                                                   !.args = <<line, None, None>>,
                                                   !.tmpbuf = QuoteBytes(line)])

\* the flusher starts send()
CallFlush(t) ==
    /\ pc[t] = "idle"
    /\ BeginKeep(t, "s_acq", [InitLoc EXCEPT !.op = "send", !.sarg = None])

InitQueue ==
    /\ InitConnected
    /\ sockssl = FALSE
    /\ InitThreads
    /\ limit = 0

NextQueue ==
    \/ CallQueue(Queuer)
    \/ q_start(Queuer) \/ q_read(Queuer) \/ q_write(Queuer)
    \/ CallFlush(Flusher)
    \/ s_acq(Flusher) \/ s_chk(Flusher) \/ s_write(Flusher) \/ s_clear(Flusher)
    \/ s_fail(Flusher) \/ s_rel(Flusher)

SpecQueue == InitQueue /\ [][NextQueue]_vars

RECURSIVE LinesBytes(_, _)
\* the bytes of the first n lines the queuer queues
LinesBytes(ls, n) == IF n = 0 THEN <<>> ELSE LinesBytes(ls, n - 1) \o encode(ls[n]) \o CRLF

\* C16: with one thread queueing and one flushing, as long as no write has
\* failed, each queued line is written once or still waits in the outbound
\* buffer: when both threads are between calls, what was written followed by
\* the outbound buffer is the queued lines, in order.
C16_QueuedWrittenOnce ==
    (pc[Queuer] = "idle" /\ pc[Flusher] = "idle" /\ sock = "connected") =>
        wire \o sendbuf = LinesBytes(QueueLines, QueuedSoFar)

-----------------------------------------------------------------------------
(* Two threads that both read: recv() and recvline(), blocking or not
   (SpecRead) *)

\* a step of thread t inside recv(), recvline() or the quit() recv() calls
ReadStep(t) ==
    \/ r_acq(t) \/ r_chk(t) \/ r_read(t) \/ r_restore(t) \/ r_disp(t) \/ r_eof(t)
    \/ r_null(t) \/ r_rel(t)
    \/ rl_acq(t) \/ rl_loop(t) \/ rl_recvd(t) \/ rl_split(t) \/ rl_rel(t)
    \/ qt_acq(t) \/ qt_chk(t) \/ qt_flush(t) \/ qt_sleep(t) \/ qt_close(t)
    \/ qt_reset(t) \/ qt_rel(t)
    \/ q_start(t) \/ s_acq(t) \/ s_chk(t) \/ s_write(t) \/ s_fail(t) \/ s_rel(t)

InitRead ==
    /\ InitConnected
    /\ sockssl = FALSE
    /\ InitThreads
    /\ limit = MaxInbound

NextRead ==
    \E t \in Threads : CallRecv(t) \/ CallRecvline(t) \/ ReadStep(t)

SpecRead == InitRead /\ [][NextRead]_vars

\* the thread is in a recv(block=False) or recvline(block=False) call
NonBlocking(t) == loc[t].op \in {"recv", "recvline"} /\ ~loc[t].block

\* C17: a recv(block=False) or recvline(block=False) call never waits for
\* the receive lock another thread holds.
C17_NonBlockingNeverWaits ==
    \A t \in Threads : NonBlocking(t) => ~Blocked(t)

\* C17 for recvline() only
C17_RecvlineNeverWaits ==
    \A t \in Threads : (NonBlocking(t) /\ loc[t].op = "recvline") => ~Blocked(t)

-----------------------------------------------------------------------------
(* quit(): what it writes, and when *)

\* whether p is a prefix of s
IsPrefix(p, s) == Len(p) <= Len(s) /\ SubSeq(s, 1, Len(p)) = p

\* the QUIT line of the quit() call with these locals
QuitLine(l) == encode(QuitText(l.reason)) \o CRLF

\* C18: when quit() on a live socket has written without an error, it has
\* written the outbound buffer as it was, then the QUIT line (wait=True), or
\* the QUIT line alone (wait=False), and the socket is not closed yet; when
\* quit() has returned it has raised nothing, the socket is closed, the
\* outbound buffer is empty and, with wait=False, nothing but the QUIT line
\* (or a part of it, when the write failed) was written.
C18_QuitOrder ==
    /\ (pc[1] = "qt_sleep" /\ loc[1].op = "quit" /\ loc[1].exc = "") =>
           /\ sock = "connected" /\ dropped # "closed"
           /\ wire = (IF loc[1].wait THEN loc[1].buf0 ELSE <<>>) \o QuitLine(loc[1])
    /\ (pc[1] = "idle" /\ ret[1].op = "quit") =>
           /\ ret[1].exc = ""
           /\ sock = "None" /\ sendbuf = <<>>
           /\ wire # <<>> => dropped = "closed"
           /\ IsPrefix(wire, (IF ret[1].wait THEN ret[1].buf0 ELSE <<>>)
                                 \o encode(QuitText(ret[1].args[1])) \o CRLF)

\* quit(wait=True) has written two waiting lines and then its QUIT line
C18_Witness ==
    /\ pc[1] = "qt_sleep" /\ loc[1].op = "quit" /\ loc[1].exc = ""
    /\ loc[1].wait
    /\ loc[1].buf0 = <<"a", CR, LF, "b", CR, LF>>
    /\ wire = <<"a", CR, LF, "b", CR, LF>> \o T_QUIT \o <<SP, ":", "a", SP, "a", CR, LF>>

\* quit(wait=False) has returned: the two waiting lines were never written
C18_WitnessDiscard ==
    /\ pc[1] = "idle" /\ ret[1].op = "quit" /\ ~ret[1].wait
    /\ ret[1].buf0 = <<"a", CR, LF, "b", CR, LF>>
    /\ wire = T_QUIT \o <<CR, LF>>
    /\ sendbuf = <<>>

\* quit() has returned after its write failed
C18_WitnessFailed ==
    /\ pc[1] = "idle" /\ ret[1].op = "quit" /\ ret[1].wait /\ ret[1].exc = ""
    /\ ret[1].buf0 # <<>> /\ wire = <<>> /\ dropped = "closed"

-----------------------------------------------------------------------------
(* send(), the verbs and the outbound buffer *)

\* a verb call with the sendnow flag has finished
VerbDone == pc[1] = "idle" /\ ret[1].op \in VerbNames \cup {"setnick"}

\* the bytes of the lines the finished verb call made (none when it raised
\* before quote())
VerbBytes ==
    IF ret[1].op = "setnick" THEN QuoteBytes(T_NICK \o rmnlsp(ret[1].args[1]))
    ELSE IF ret[1].op = "setuser" /\ addr = "None" THEN <<>>
    ELSE QuoteBytes(VerbText(ret[1].op, ret[1].args, nick, Host))

\* C19: send() writes the outbound buffer and leaves it empty, and leaves it
\* as it was when it fails; send(bytes) and a verb with sendnow=True write
\* the given bytes only and leave the outbound buffer as it was; a verb with
\* sendnow=False appends its lines to the outbound buffer and writes nothing.
C19_SendFrame ==
    /\ (pc[1] = "idle" /\ ret[1].op = "send" /\ ret[1].arg = None) =>
           IF ret[1].exc = ""
           THEN wire = ret[1].buf0 /\ sendbuf = <<>>
           ELSE sendbuf = ret[1].buf0 /\ IsPrefix(wire, ret[1].buf0)
    /\ (pc[1] = "idle" /\ ret[1].op = "send" /\ ret[1].arg # None) =>
           /\ sendbuf = ret[1].buf0
           /\ IF ret[1].exc = "" THEN wire = ret[1].arg ELSE IsPrefix(wire, ret[1].arg)
    /\ (VerbDone /\ ret[1].sendnow) =>
           /\ sendbuf = ret[1].buf0
           /\ IF ret[1].exc = "" THEN wire = VerbBytes ELSE IsPrefix(wire, VerbBytes)
    /\ (VerbDone /\ ~ret[1].sendnow) =>
           /\ wire = <<>>
           /\ sendbuf = ret[1].buf0 \o VerbBytes

\* send() has flushed two waiting lines
C19_Witness ==
    /\ pc[1] = "idle" /\ ret[1].op = "send" /\ ret[1].arg = None /\ ret[1].exc = ""
    /\ ret[1].buf0 = <<"a", CR, LF, "b", CR, LF>>
    /\ wire = ret[1].buf0 /\ sendbuf = <<>>

\* a flush failed and left the buffer
C19_WitnessFailed ==
    /\ pc[1] = "idle" /\ ret[1].op = "send" /\ ret[1].arg = None
    /\ ret[1].exc = "SocketError"
    /\ sendbuf = <<"a", CR, LF>>

\* say() with sendnow=False queued two lines behind the one waiting
C19_WitnessQueued ==
    /\ VerbDone /\ ret[1].op = "say" /\ ~ret[1].sendnow
    /\ ret[1].buf0 = <<"a", CR, LF>>
    /\ Queued(sendbuf) = 3 /\ wire = <<>>

-----------------------------------------------------------------------------
(* say() and me() on bodies of several lines *)

\* the lines of a body, when it has some and none of them is empty
BodyLines(body) == splitlines(body)

AllNonEmpty(ls) == ls # <<>> /\ \A i \in 1..Len(ls) : ls[i] # <<>>

RECURSIVE PrivmsgEach(_, _, _, _)
\* one 'PRIVMSG <dest> :<pre><line><post>' with CR LF for each line
PrivmsgEach(dest, ls, pre, post) ==
    IF ls = <<>> THEN <<>>
    ELSE T_PRIVMSG \o <<SP>> \o dest \o <<SP, ":">> \o pre \o Head(ls) \o post \o CRLF
         \o PrivmsgEach(dest, Tail(ls), pre, post)

\* say() hands quote() one PRIVMSG line for each line of its body
C20_SayPerLine ==
    (pc[1] = "q_start" /\ loc[1].op = "say" /\ AllNonEmpty(BodyLines(loc[1].args[2]))) =>
        loc[1].tmpbuf = PrivmsgEach(rmnlsp(loc[1].args[1]), BodyLines(loc[1].args[2]),
                                    <<>>, <<>>)

\* C20: for a body of n non-empty lines say() makes n PRIVMSG lines, and
\* me() makes n PRIVMSG lines that each carry the one CTCP ACTION of their
\* line, in the order of the body.
C20_OneCommandPerLine ==
    /\ C20_SayPerLine
    /\ (pc[1] = "q_start" /\ loc[1].op = "me" /\ AllNonEmpty(BodyLines(loc[1].args[2]))) =>
           loc[1].tmpbuf = PrivmsgEach(rmnlsp(loc[1].args[1]), BodyLines(loc[1].args[2]),
                                       T_ACTION, <<"x01">>)

\* C20 for me() with a body of one line
C20_MeOneLine ==
    (pc[1] = "q_start" /\ loc[1].op = "me" /\ Len(BodyLines(loc[1].args[2])) = 1) =>
        loc[1].tmpbuf = PrivmsgEach(rmnlsp(loc[1].args[1]), BodyLines(loc[1].args[2]),
                                    T_ACTION, <<"x01">>)

-----------------------------------------------------------------------------
(* C21: the CTCP keepalive of parse() *)

\* a NOTICE command stands somewhere in the bytes written
NoticeWritten == \E i \in 1..Len(wire) : StartsWith(SubSeq(wire, i, Len(wire)), T_NOTICE)

\* the event of the finished parse() is a PRIVMSG from a sender (a nick of
\* at least one character), with a payload that starts with the CTCP PING
\* marker
CtcpPingEvent ==
    /\ ret[1].rv = "event"
    /\ ret[1].ev.cmd = T_PRIVMSG
    /\ ret[1].ev.nick # None /\ ret[1].ev.nick # <<>>
    /\ ret[1].ev.msg # None /\ StartsWith(ret[1].ev.msg, T_CTCPPING)

\* C21: when parse() yields a PRIVMSG event with a non-null nick and a
\* payload that starts with '\x01PING ', it has written exactly the one line
\* 'NOTICE <nick> :<payload>' and returns that event; for every other line
\* it writes no NOTICE (the socket being connected, and still so afterwards).
C21_CtcpOneNotice ==
    (Parsed /\ sock = "connected" /\ ret[1].exc = "") =>
        IF CtcpPingEvent
        THEN /\ wire = T_NOTICE \o ret[1].ev.nick \o <<SP, ":">> \o ret[1].ev.msg \o CRLF
             /\ ret[1].ev = ParseFields(ret[1].arg)
        ELSE ~NoticeWritten

\* C21 for the lines without a carriage return
C21_CtcpOneNoticeNoBreak ==
    (Parsed /\ HasNo(ret[1].arg, CR)) => C21_CtcpOneNotice

\* a CTCP PING was answered
C21_Answered == Parsed /\ sock = "connected" /\ CtcpPingEvent /\ NoticeWritten

-----------------------------------------------------------------------------
(* C22: the state connect() leaves *)

\* connect() has returned without an exception
Connected == pc[1] = "idle" /\ ret[1].op = "connect" /\ ret[1].exc = ""

\* C22: after a successful connect() returns, sock is a connected socket,
\* addr is the target address, nick is None and sendbuf and recvbuf are
\* empty, whatever the object held before.
C22_ConnectResets ==
    Connected =>
        /\ sock = "connected"
        /\ addr = "ADDR"
        /\ nick = None
        /\ sendbuf = <<>>
        /\ recvbuf = <<>>

\* connect() succeeded on an object that held queued lines of an earlier
\* session
C22_Witness == Connected /\ ret[1].buf0 # <<>> /\ sock = "connected" /\ sendbuf = <<>>

\* connect() succeeded after a quit()
C22_WitnessAfterQuit == Connected /\ ret[1].after /\ sock = "connected"

-----------------------------------------------------------------------------
(* Two threads on one connected object (SpecLife): thread 1 disconnects with
   quit() and reconnects with connect(), thread 2 calls recv() *)

Owner == 1

\* a step of the owner inside connect() or quit()
OwnerStep ==
    \/ c_acq(Owner) \/ c_addr(Owner) \/ c_sock(Owner) \/ c_conn(Owner) \/ c_reset(Owner)
    \/ c_rel(Owner)
    \/ qt_acq(Owner) \/ qt_chk(Owner) \/ qt_flush(Owner) \/ qt_sleep(Owner)
    \/ qt_close(Owner) \/ qt_reset(Owner) \/ qt_rel(Owner)
    \/ q_start(Owner) \/ q_read(Owner) \/ q_write(Owner)
    \/ s_acq(Owner) \/ s_chk(Owner) \/ s_write(Owner) \/ s_clear(Owner)
    \/ s_fail(Owner) \/ s_rel(Owner)

\* the owner disconnects at most once, and reconnects at most once
LifeQuit == ret[Owner] = NoRet /\ CallQuit(Owner)
LifeConnect == ret[Owner].op # "connect" /\ CallConnect(Owner)

InitLife ==
    /\ InitConnected
    /\ InitThreads
    /\ limit = MaxInbound

NextLife ==
    \/ LifeQuit
    \/ LifeConnect
    \/ CallRecv(Receiver)
    \/ OwnerStep
    \/ ReceiverStep

SpecLife == InitLife /\ [][NextLife]_vars

\* the receiver's recv() has finished
Received == pc[Receiver] = "idle" /\ ret[Receiver].op = "recv"

\* the receiver is past the no-socket check of recv() and about to use
\* self.sock
UsesSock == pc[Receiver] \in {"r_read", "r_restore"}

\* C23: a recv() that runs while another thread calls quit() returns or
\* raises a socket error (ENOTSOCK, a timeout or another transport error),
\* and the socket is not None where recv() uses it after its no-socket check.
C23_RecvOutcomes ==
    /\ Received => ret[Receiver].exc \in {"", "ENOTSOCK", "Timeout", "SocketError"}
    /\ UsesSock => sock # "None"

\* the outcomes recv() has beside a quit(): those of C23 and the
\* AttributeError of a None socket
C23_RecvOutcomesAsCoded ==
    Received => ret[Receiver].exc \in {"", "ENOTSOCK", "Timeout", "SocketError",
                                       "AttributeError"}

\* the step changes self.sock and is taken by the thread that holds the send
\* lock
UnderLock == \E t \in Threads : lock.owner = t /\ pc'[t] # pc[t]

\* the owner's connect() has returned without an exception
Reconnected == pc[Owner] = "idle" /\ ret[Owner].op = "connect" /\ ret[Owner].exc = ""

\* self.sock changes only in steps of the thread that holds the send lock
C24_SockUnderLock == [][sock' # sock => UnderLock]_vars

\* once connect() has returned, the socket becomes None only in the reset
\* of a quit() or in the failure handler of a send() on that socket
C24_ReconnectKept ==
    [][(Reconnected /\ sock # "None" /\ sock' = "None") =>
           \E t \in Threads : pc[t] \in {"qt_reset", "s_fail"} /\ pc'[t] # pc[t]]_vars

\* C24: self.sock is changed only by a thread that holds the send lock, and
\* once connect() has returned successfully the socket stays non-None until
\* a quit() or a failed write on it, also while a recv() that failed on the
\* previous socket finishes its error handling in another thread.
C24_SockOnlyUnderLock == C24_SockUnderLock /\ C24_ReconnectKept

\* the one step that changes self.sock without the send lock is the
\* "finally: self.sock = None" of recv()
C24_OnlyRecvUnlocked ==
    [][sock' # sock => (UnderLock \/ (pc[Receiver] = "r_null" /\ pc'[Receiver] = "r_rel"))]_vars

-----------------------------------------------------------------------------
(* relay.py: class LRUCache, lines 49-74 (SpecCache) *)

CacheValues == {"u", "v"}

\* the keys of an OrderedDict
KeysOf(c) == {c[i].k : i \in 1..Len(c)}

\* where a key stands, and the value stored under it
IndexOf(c, key) == (CHOOSE i \in 1..Len(c) : c[i].k = key)
ValueAt(c, key) == c[IndexOf(c, key)].v

\* self.cache.pop(key), for a key that is there
Popped(c, key) == SelectSeq(c, LAMBDA e : e.k # key)

\* self.cache after __setitem__(key, value) on a cache of capacity cap
Stored(c, cap, key, value) ==
    (IF key \in KeysOf(c) THEN Popped(c, key)
     ELSE IF Len(c) >= cap THEN Tail(c) ELSE c)
    \o <<[k |-> key, v |-> value]>>

\* the record of a call
Called(op, key, value, found, result) ==
    [op |-> op, key |-> key, value |-> value, found |-> found, result |-> result,
     before |-> cache, clock |-> lastop.clock + 1, prev |-> lastop.stamp,
     stamp |-> IF found \/ op = "setitem"
               THEN [lastop.stamp EXCEPT ![key] = lastop.clock + 1]
               ELSE lastop.stamp]

\* __getitem__(key): value = self.cache.pop(key); self.cache[key] = value;
\* pop raises KeyError for a key that is not there
LRU_getitem ==
    /\ lastop.clock < MaxOps
    /\ \E key \in CacheKeys :
          IF key \in KeysOf(cache)
          THEN /\ cache' = Popped(cache, key) \o <<[k |-> key, v |-> ValueAt(cache, key)]>>
               /\ lastop' = Called("getitem", key, "", TRUE, ValueAt(cache, key))
          ELSE /\ UNCHANGED cache
               /\ lastop' = Called("getitem", key, "", FALSE, "KeyError")
    /\ UNCHANGED <<ircvars, CFG, lastcmd, capacity, pollvars>>

\* get(key, default): as __getitem__, with default for the KeyError
LRU_get ==
    /\ lastop.clock < MaxOps
    /\ \E key \in CacheKeys :
          IF key \in KeysOf(cache)
          THEN /\ cache' = Popped(cache, key) \o <<[k |-> key, v |-> ValueAt(cache, key)]>>
               /\ lastop' = Called("get", key, "", TRUE, ValueAt(cache, key))
          ELSE /\ UNCHANGED cache
               /\ lastop' = Called("get", key, "", FALSE, "default")
    /\ UNCHANGED <<ircvars, CFG, lastcmd, capacity, pollvars>>

\* __setitem__ without the eviction
LRU_setitem_no_evict ==
    /\ lastop.clock < MaxOps
    /\ \E key \in CacheKeys, value \in CacheValues :
          /\ cache' = Popped(cache, key) \o <<[k |-> key, v |-> value]>>
          /\ lastop' = Called("setitem", key, value, key \in KeysOf(cache), "")
    /\ UNCHANGED <<ircvars, CFG, lastcmd, capacity, pollvars>>

\* __setitem__ that evicts the newest entry
LRU_setitem_evict_last ==
    /\ lastop.clock < MaxOps
    /\ \E key \in CacheKeys, value \in CacheValues :
          /\ cache' = (IF key \in KeysOf(cache) THEN Popped(cache, key)
                        ELSE IF Len(cache) >= capacity
                             THEN SubSeq(cache, 1, Len(cache) - 1)
                             ELSE cache)
                       \o <<[k |-> key, v |-> value]>>
          /\ lastop' = Called("setitem", key, value, key \in KeysOf(cache), "")
    /\ UNCHANGED <<ircvars, CFG, lastcmd, capacity, pollvars>>

\* __setitem__(key, value): try: self.cache.pop(key); except KeyError: if
\* len(self.cache) >= self.capacity: self.cache.popitem(last=False); then
\* self.cache[key] = value
LRU_setitem ==
    /\ lastop.clock < MaxOps
    /\ \E key \in CacheKeys, value \in CacheValues :
          /\ cache' = Stored(cache, capacity, key, value)
          /\ lastop' = Called("setitem", key, value, key \in KeysOf(cache), "")
    /\ UNCHANGED <<ircvars, CFG, lastcmd, capacity, pollvars>>

\* LRUCache(maxlen) with maxlen >= 1
InitCache ==
    /\ InitObject
    /\ InitCalls
    /\ limit = 0
    /\ CFG = [t2i |-> TRUE, i2t |-> TRUE]
    /\ lastcmd = NoCmd
    /\ capacity \in 1..MaxCapacity
    /\ cache = <<>>
    /\ lastop = NoOp
    /\ loop = [t \in Threads |-> "off"]
    /\ MSG_Q = <<>>
    /\ fwdmsg = NoMsg

NextCache == LRU_getitem \/ LRU_get \/ LRU_setitem

SpecCache == InitCache /\ [][NextCache]_vars

\* C26: after any sequence of __setitem__, __getitem__ and get on a cache of
\* capacity N >= 1 at most N keys are stored (each once), and setting a key
\* that is present changes its value and evicts no key.
C26_AtMostCapacity ==
    /\ Len(cache) <= capacity
    /\ Cardinality(KeysOf(cache)) = Len(cache)
    /\ (lastop.op = "setitem" /\ lastop.found) =>
           /\ KeysOf(cache) = KeysOf(lastop.before)
           /\ ValueAt(cache, lastop.key) = lastop.value
           /\ \A k \in KeysOf(cache) \ {lastop.key} :
                  ValueAt(cache, k) = ValueAt(lastop.before, k)

\* a new key was set on a full cache
C26_Witness ==
    /\ lastop.op = "setitem" /\ ~lastop.found
    /\ Len(lastop.before) = capacity /\ Len(cache) = capacity

\* a key of a full cache of two was set again
C26_WitnessPresent ==
    /\ lastop.op = "setitem" /\ lastop.found
    /\ Len(lastop.before) = capacity /\ capacity = 2

\* the stored key whose last access is the oldest
Oldest(c, stamp) ==
    CHOOSE k \in KeysOf(c) : \A j \in KeysOf(c) : stamp[k] <= stamp[j]

\* C27: a new key set on a full cache removes the key whose last access
\* (set, successful __getitem__ or successful get) is the oldest and no
\* other; a get of a missing key returns the default and changes neither
\* the contents nor the order.
C27_EvictsLeastRecent ==
    /\ (lastop.op = "setitem" /\ ~lastop.found /\ Len(lastop.before) >= capacity) =>
           KeysOf(cache) = (KeysOf(lastop.before) \ {Oldest(lastop.before, lastop.prev)})
                              \cup {lastop.key}
    /\ (lastop.op = "get" /\ ~lastop.found) =>
           (lastop.result = "default" /\ cache = lastop.before)

\* the fourth call set a new key on a full cache of two and evicted the key
\* last used in the second call, while the key that stays was used in the
\* third
C27_Witness ==
    /\ lastop.op = "setitem" /\ ~lastop.found /\ Len(lastop.before) = 2 /\ capacity = 2
    /\ lastop.clock = 4
    /\ \E gone \in KeysOf(lastop.before) \ KeysOf(cache) :
          \E kept \in KeysOf(lastop.before) \cap KeysOf(cache) :
             lastop.prev[gone] = 2 /\ lastop.prev[kept] = 3

\* a get of a missing key on a cache that holds a key
C27_WitnessMissing == lastop.op = "get" /\ ~lastop.found /\ cache # <<>>

-----------------------------------------------------------------------------
(* relay.py: checkircconn and the polling loop getircupd, lines 109-138
   (SpecPoll) *)

Poller == 1
Forwarder == 2

\* CFG['ircnick'] and CFG['ircchannel']
IrcNick == <<"n">>
IrcChannel == <<"#">>

\* re.match(CFG['ircbanre'], nick): the pattern matches the nicks that start
\* with b
Banned(n) == StartsWith(n, <<"b">>)

\* str.strip(): white space at both ends goes
StripWs(x) == Strip(Strip(Strip(Strip(Strip(x, SP), CR), LF), SP), CR)

\* the fields of the IRCConnection object
objvars == <<sock, sockssl, addr, nick, sendbuf, recvbuf, lock, recvlock>>

\* the positions inside checkircconn
CkLabels == {"ck_conn", "ck_nick", "ck_user", "ck_join"}

\* where the caller of checkircconn goes on: getircupd with parse(),
\* irc_forward with say()
Cont(t) == IF t = Poller THEN "g_parse" ELSE "f_say"

\* an exception ends getircupd, which has no handler and is the target of
\* its thread; irc_forward logs it and returns
Raised(t) == IF t = Poller THEN "dead" ELSE "off"

\* the thread goes on in relay.py and the object stays as it is
Moves(t, to) ==
    /\ loop' = [loop EXCEPT ![t] = to]
    /\ UNCHANGED <<ircvars, relayvars, MSG_Q, fwdmsg>>

\* checkircconn(): if not ircconn or not ircconn.sock: ircconn =
\* libirc.IRCConnection(); ircconn.connect(...).  The new object replaces the
\* old one while no other thread is inside a method of it.
checkircconn(t) ==
    /\ loop[t] = "ck"
    /\ pc[t] = "idle"
    /\ IF sock # "None"
       THEN Moves(t, Cont(t))
       ELSE /\ \A u \in Threads \ {t} : pc[u] = "idle" /\ loop[u] \notin CkLabels
            /\ UNCHANGED sock
            /\ sockssl' = FALSE
            /\ addr' = "None"
            /\ nick' = None
            /\ recvbuf' = <<>>
            /\ sendbuf' = <<>>
            /\ lock' = Free
            /\ recvlock' = Free
            /\ \E ssl \in BOOLEAN :
                  StartCall(t, "c_acq", [InitLoc EXCEPT !.op = "connect", !.ssl = ssl])
            /\ loop' = [loop EXCEPT ![t] = "ck_conn"]
            /\ UNCHANGED <<MSG_Q, fwdmsg>>

\* the next statement of checkircconn: the call before it has returned, or
\* raised; then the method that starts at entry is called
CkNext(t, here, there, entry, l) ==
    /\ loop[t] = here
    /\ pc[t] = "idle"
    /\ IF ret[t].exc # ""
       THEN Moves(t, Raised(t))
       ELSE /\ StartCall(t, entry, l)
            /\ loop' = [loop EXCEPT ![t] = there]
            /\ UNCHANGED <<objvars, MSG_Q, fwdmsg>>

\* ircconn.setnick(CFG['ircnick']), config.json having no 'ircpass'
ck_conn(t) ==
    CkNext(t, "ck_conn", "ck_nick", "n_set",
           [InitLoc EXCEPT !.op = "setnick", !.newnick = IrcNick,
                           !.args = <<IrcNick, None, None>>])

\* ircconn.setuser(CFG['ircnick'], CFG['ircnick'])
ck_nick(t) ==
    CkNext(t, "ck_nick", "ck_user", "v_fmt",
           [InitLoc EXCEPT !.op = "setuser", !.args = <<IrcNick, IrcNick, None>>])

\* ircconn.join(CFG['ircchannel'])
ck_user(t) ==
    CkNext(t, "ck_user", "ck_join", "v_fmt",
           [InitLoc EXCEPT !.op = "join", !.args = <<IrcChannel, None, None>>])

\* join() has returned, or raised: checkircconn returns
ck_join(t) ==
    /\ loop[t] = "ck_join"
    /\ pc[t] = "idle"
    /\ Moves(t, IF ret[t].exc # "" THEN Raised(t) ELSE Cont(t))

\* getircupd: line = ircconn.parse(block=False)
g_parse ==
    /\ loop[Poller] = "g_parse"
    /\ StartCall(Poller, "p_start", [InitLoc EXCEPT !.op = "parse", !.block = FALSE])
    /\ loop' = [loop EXCEPT ![Poller] = "g_handle"]
    /\ UNCHANGED <<objvars, MSG_Q, fwdmsg>>

\* the message getircupd queues for an event: its sender is the IRC bot of
\* the configuration (CFG['ircbotid']), and its id the time in seconds
IrcMessage(ev) ==
    [id |-> 1, from |-> "ircbot", ircuser |-> ev.nick, text |-> StripWs(ev.msg),
     chat |-> "group"]

\* getircupd, lines 126-138: parse() has returned or raised; a PRIVMSG that
\* is not for the bot's nick and not from a banned nick is queued;
\* re.match raises TypeError for a nick None and None.strip() raises
\* AttributeError
g_handle ==
    /\ loop[Poller] = "g_handle"
    /\ pc[Poller] = "idle"
    /\ LET r == ret[Poller]
       IN  IF r.exc # ""
           THEN Moves(Poller, "dead")
           ELSE IF r.rv = "event" /\ r.ev.cmd = T_PRIVMSG /\ r.ev.dest # DStr(IrcNick)
           THEN IF r.ev.nick = None
                THEN Moves(Poller, "dead")
                ELSE IF Banned(r.ev.nick)
                THEN Moves(Poller, "ck")
                ELSE IF r.ev.msg = None
                THEN Moves(Poller, "dead")
                ELSE /\ Len(MSG_Q) < MaxQueued
                     /\ MSG_Q' = Append(MSG_Q, IrcMessage(r.ev))
                     /\ loop' = [loop EXCEPT ![Poller] = "ck"]
                     /\ UNCHANGED <<ircvars, relayvars, fwdmsg>>
           ELSE Moves(Poller, "ck")

\* a step of the poller inside a method of the IRCConnection
PollerStep ==
    \/ c_acq(Poller) \/ c_addr(Poller) \/ c_sock(Poller) \/ c_conn(Poller)
    \/ c_reset(Poller) \/ c_rel(Poller)
    \/ n_set(Poller) \/ v_fmt(Poller) \/ q_start(Poller)
    \/ s_acq(Poller) \/ s_chk(Poller) \/ s_write(Poller) \/ s_fail(Poller) \/ s_rel(Poller)
    \/ p_start(Poller) \/ p_recvd(Poller) \/ p_line(Poller) \/ p_done(Poller)
    \/ rl_acq(Poller) \/ rl_loop(Poller) \/ rl_recvd(Poller) \/ rl_split(Poller)
    \/ rl_rel(Poller)
    \/ r_acq(Poller) \/ r_chk(Poller) \/ r_read(Poller) \/ r_restore(Poller)
    \/ r_disp(Poller) \/ r_eof(Poller) \/ r_null(Poller) \/ r_rel(Poller)
    \/ qt_acq(Poller) \/ qt_chk(Poller) \/ qt_flush(Poller) \/ qt_sleep(Poller)
    \/ qt_close(Poller) \/ qt_reset(Poller) \/ qt_rel(Poller)

\* relay.py starts: ircconn = None, and getircupd is about to call
\* checkircconn
InitPoll ==
    /\ InitObject
    /\ InitCalls
    /\ limit = MaxChunk
    /\ CFG = [t2i |-> TRUE, i2t |-> TRUE]
    /\ lastcmd = NoCmd
    /\ capacity = 1
    /\ cache = <<>>
    /\ lastop = NoOp
    /\ loop = [t \in Threads |-> IF t = Poller THEN "ck" ELSE "off"]
    /\ MSG_Q = <<>>
    /\ fwdmsg = NoMsg

NextPoll ==
    \/ checkircconn(Poller) \/ ck_conn(Poller) \/ ck_nick(Poller) \/ ck_user(Poller)
    \/ ck_join(Poller)
    \/ g_parse \/ g_handle
    \/ PollerStep

SpecPoll == InitPoll /\ [][NextPoll]_vars

\* parse() ended with the exception of a lost connection: the ENOTSOCK
\* error after the peer closed, a timeout or another socket error
LostInParse ==
    /\ pc[Poller] = "idle"
    /\ ret[Poller].op = "parse"
    /\ ret[Poller].exc \in {"ENOTSOCK", "Timeout", "SocketError"}

\* C25: when the IRC connection is lost (the peer closes, a timeout, a
\* network error) getircupd keeps running, to reconnect through
\* checkircconn and parse again: a lost connection never ends the polling.
C25_LossNeverEndsPolling == LostInParse => loop[Poller] # "dead"

\* what the code does: the poller's parse() raises whenever it loses the
\* connection, and the exception ends getircupd
C25_LossEndsPolling ==
    /\ (pc[Poller] = "idle" /\ ret[Poller].op = "parse" /\ sock = "None") =>
           LostInParse
    /\ (LostInParse /\ loop[Poller] # "g_handle") => loop[Poller] = "dead"

-----------------------------------------------------------------------------
(* relay.py: the way of a message from IRC through MSG_Q, processmsg and
   irc_forward, lines 121-202 and 351-366 (SpecEcho) *)

\* irc_forward without the test of the sender
f_from_no_check ==
    /\ loop[Forwarder] = "f_from"
    /\ Moves(Forwarder, "ck")

\* irc_forward(msg): if msg['from']['id'] == CFG['ircbotid']: return; then
\* checkircconn()
f_from ==
    /\ loop[Forwarder] = "f_from"
    /\ Moves(Forwarder, IF fwdmsg.from = "ircbot" THEN "off" ELSE "ck")

\* dc_getufname(msg['from']) of a Telegram user
UserName == <<"u">>

\* irc_forward, lines 167-199, for a text of one line without media,
\* forward or reply: ircconn.say(CFG['ircchannel'], '[%s] %s' % (name, ln))
f_say ==
    /\ loop[Forwarder] = "f_say"
    /\ pc[Forwarder] = "idle"
    /\ IF StripWs(fwdmsg.text) # <<>>
       THEN /\ StartCall(Forwarder, "v_fmt",
                         [InitLoc EXCEPT !.op = "say",
                                         !.args = <<IrcChannel,
                                                    <<"[">> \o UserName \o <<"]", SP>>
                                                        \o fwdmsg.text,
                                                    None>>])
            /\ loop' = [loop EXCEPT ![Forwarder] = "f_done"]
            /\ UNCHANGED <<objvars, MSG_Q, fwdmsg>>
       ELSE Moves(Forwarder, "off")

\* say() has returned, or raised an exception that irc_forward logs
f_done ==
    /\ loop[Forwarder] = "f_done"
    /\ pc[Forwarder] = "idle"
    /\ Moves(Forwarder, "off")

\* getupdates, lines 94-107: a message of a Telegram user arrives, in the
\* group or in a private chat (one in a behaviour)
getupdates ==
    /\ Len(MSG_Q) < MaxQueued
    /\ 2 \notin KeysOf(cache) \cup {MSG_Q[i].id : i \in 1..Len(MSG_Q)}
    /\ \E chat \in {"group", "private"}, text \in {<<"x">>, <<SP>>} :
          MSG_Q' = Append(MSG_Q, [id |-> 2, from |-> "user", ircuser |-> None,
                                  text |-> text, chat |-> chat])
    /\ UNCHANGED <<ircvars, relayvars, loop, fwdmsg>>

\* processmsg, lines 351-366: the message leaves MSG_Q and enters
\* MSG_CACHE; one of the group is handed to irc_forward when t2i is set
\* (one irc_forward thread at a time).  What processmsg sends to Telegram is
\* no part of the state, and no text here is a command.
processmsg ==
    /\ MSG_Q # <<>>
    /\ loop[Forwarder] = "off"
    /\ pc[Forwarder] = "idle"
    /\ MSG_Q' = Tail(MSG_Q)
    /\ cache' = Stored(cache, capacity, Head(MSG_Q).id, Head(MSG_Q))
    /\ IF Head(MSG_Q).chat = "group" /\ CFG.t2i
       THEN /\ fwdmsg' = Head(MSG_Q)
            /\ loop' = [loop EXCEPT ![Forwarder] = "f_from"]
       ELSE UNCHANGED <<fwdmsg, loop>>
    /\ UNCHANGED <<ircvars, CFG, lastcmd, capacity, lastop>>

\* a step of the forwarder inside a method of the IRCConnection
ForwarderStep ==
    \/ c_acq(Forwarder) \/ c_addr(Forwarder) \/ c_sock(Forwarder) \/ c_conn(Forwarder)
    \/ c_reset(Forwarder) \/ c_rel(Forwarder)
    \/ n_set(Forwarder) \/ v_fmt(Forwarder) \/ q_start(Forwarder)
    \/ s_acq(Forwarder) \/ s_chk(Forwarder) \/ s_write(Forwarder) \/ s_fail(Forwarder)
    \/ s_rel(Forwarder)

\* ':<nick>!i '
From(n) == <<":">> \o n \o <<"!", "i", SP>>

\* lines of the server: a PRIVMSG to the channel, one without sender, one
\* to the bot's nick, one from a banned nick, one without text, a CTCP PING,
\* and other verbs
RelayLines ==
    {From(<<"a">>) \o T_PRIVMSG \o <<SP, "#", SP, ":", "x">>,
     T_PRIVMSG \o <<SP, "#", SP, ":", "x">>,
     From(<<"a">>) \o T_PRIVMSG \o <<SP>> \o IrcNick \o <<SP, ":", "x">>,
     From(<<"b">>) \o T_PRIVMSG \o <<SP, "#", SP, ":", "x">>,
     From(<<"a">>) \o T_PRIVMSG \o <<SP, "#">>,
     From(<<"a">>) \o T_PRIVMSG \o <<SP, "#", SP, ":">> \o T_CTCPPING \o <<"x">>,
     From(<<"a">>) \o T_KICK \o <<SP, "#", SP>> \o IrcNick,
     From(<<"a">>) \o <<"F", SP, "#", SP, ":", "x">>}

\* connected and registered, with nothing or one whole line received and
\* not yet parsed, and a server that sends no more; each flag set or not
InitEcho ==
    /\ sock = "connected"
    /\ sockssl = FALSE
    /\ addr = "ADDR"
    /\ nick = IrcNick
    /\ recvbuf \in {<<>>} \cup {encode(l) \o <<LF>> : l \in RelayLines}
    /\ sendbuf = <<>>
    /\ lock = Free
    /\ recvlock = Free
    /\ InitCalls
    /\ limit = 0
    /\ CFG \in [t2i : BOOLEAN, i2t : BOOLEAN]
    /\ lastcmd = NoCmd
    /\ capacity = MaxCapacity
    /\ cache = <<>>
    /\ lastop = NoOp
    /\ loop = [t \in Threads |-> IF t = Poller THEN "ck" ELSE "off"]
    /\ MSG_Q = <<>>
    /\ fwdmsg = NoMsg

NextEcho ==
    \/ \E t \in Threads :
          checkircconn(t) \/ ck_conn(t) \/ ck_nick(t) \/ ck_user(t) \/ ck_join(t)
    \/ g_parse \/ g_handle
    \/ getupdates \/ processmsg
    \/ f_from \/ f_say \/ f_done
    \/ PollerStep
    \/ ForwarderStep

SpecEcho == InitEcho /\ [][NextEcho]_vars

\* irc_forward is past its test of the sender: in checkircconn or in say()
Forwarding == loop[Forwarder] \in {"ck", "f_say", "f_done"} \cup CkLabels

\* the step puts a message of getircupd into MSG_Q
QueuedFromIrc ==
    /\ Len(MSG_Q') = Len(MSG_Q) + 1
    /\ MSG_Q'[Len(MSG_Q')].from = "ircbot"

\* C28: irc_forward sends no message to IRC that getircupd queued (sender
\* the IRC bot id, with '_ircuser'), whatever the flags t2i and i2t are; and
\* getircupd queues only PRIVMSG events whose destination is not the bot's
\* nick and whose sender does not match the ban pattern.
C28_NoEchoLoop ==
    /\ [](Forwarding => (fwdmsg.from # "ircbot" /\ fwdmsg.ircuser = None))
    /\ [][QueuedFromIrc =>
             /\ ret[Poller].ev.cmd = T_PRIVMSG
             /\ ret[Poller].ev.dest # DStr(IrcNick)
             /\ ~Banned(ret[Poller].ev.nick)
             /\ MSG_Q'[Len(MSG_Q')].ircuser = ret[Poller].ev.nick]_vars

\* a message that getircupd queued went through processmsg with t2i set,
\* and irc_forward returned without sending it
C28_Witness ==
    /\ fwdmsg.from = "ircbot" /\ fwdmsg.ircuser = <<"a">>
    /\ CFG.t2i
    /\ loop[Forwarder] = "off"

\* the message of a Telegram user was sent to the channel
C28_WitnessForwarded ==
    /\ fwdmsg.from = "user"
    /\ loop[Forwarder] = "f_done" /\ pc[Forwarder] = "idle"
    /\ ret[Forwarder].op = "say" /\ ret[Forwarder].exc = ""
    /\ wire # <<>>

=============================================================================
